---- MODULE Spec2Model ----
(***************************************************************************)
(* A model of AMasterRoom (GeminiDungeonGen): the procedural room          *)
(* generator.  One RegenerateRoom run clears the instance buckets and the  *)
(* interior grid, packs the interior, lays out doors and walls edge by     *)
(* edge, stacks the wall layers, places the corners and tiles the ceiling. *)
(* Cell coordinates are pairs <<X, Y>>; world positions are triples of     *)
(* integers in centimetres (every position the code computes is a          *)
(* multiple of half a cell).                                               *)
(***************************************************************************)
EXTENDS Integers, Sequences, FiniteSets, TLC

VARIABLES
    RoomData,                 \* URoomData* (nullptr, or the room's data asset)
    GenerationSeed,           \* int32 GenerationSeed
    ShapePreset,              \* URoomShapePreset* (nullptr or a preset)
    ForcedEmptyRegions,       \* TArray<FForcedEmptyRegion>
    ForcedEmptyFloorCells,    \* TArray<FIntPoint>
    ForcedInteriorPlacements, \* TMap<FIntPoint, FMeshPlacementInfo>, in iteration order
    FixedDoorLocations,       \* TArray<FFixedDoorLocation>
    ForcedWalls,              \* TArray<FForcedWallPlacement>
    bEnableProceduralDoors,   \* bool
    MinProceduralDoors,       \* int32
    MaxProceduralDoors,       \* int32
    RequiredDoorEdges,        \* TArray<EWallEdge>
    InternalGridState,        \* TArray<EGridCellType>, index Y * GridSize.X + X
    OccupancyGrid,            \* TMap<FIntPoint, EGridCellType> of the boundary ring
    PlacedBaseWalls,          \* TArray<FWallSegmentInfo>
    Instances,                \* the instances of all HISM buckets, in emission order
    Loaded,                   \* the mesh assets resident in memory
    pc,                       \* the position of the run
    EdgeIndex,                \* index into Edges of the edge being processed
    Segments,                 \* the segments of the current edge not yet filled
    SegmentsHanded,           \* every segment handed to FillWallSegment in this run
    FillEdge,                 \* FillWallSegment: Edge
    RemainingCells,           \* FillWallSegment: RemainingCells
    CurrentCell,              \* FillWallSegment: CurrentCell
    DoorsBefore,              \* FixedDoorLocations as it was when the run began
    Runs,                     \* number of RegenerateRoom invocations so far
    Last                      \* what the previous invocation was given and produced

vars == <<RoomData, GenerationSeed, ShapePreset, ForcedEmptyRegions,
          ForcedEmptyFloorCells, ForcedInteriorPlacements, FixedDoorLocations,
          ForcedWalls, bEnableProceduralDoors, MinProceduralDoors,
          MaxProceduralDoors, RequiredDoorEdges, InternalGridState, OccupancyGrid,
          PlacedBaseWalls, Instances, Loaded, pc, EdgeIndex, Segments,
          SegmentsHanded, FillEdge, RemainingCells, CurrentCell, DoorsBefore,
          Runs, Last>>

designerVars == <<RoomData, GenerationSeed, ShapePreset, ForcedEmptyRegions,
                  ForcedEmptyFloorCells, ForcedInteriorPlacements, ForcedWalls,
                  bEnableProceduralDoors, MinProceduralDoors, MaxProceduralDoors,
                  RequiredDoorEdges>>

fillVars == <<FillEdge, RemainingCells, CurrentCell>>

-----------------------------------------------------------------------------
(* Bounds of the model.                                                    *)

MaxRuns == 2          \* RegenerateRoom invocations explored
RandMod == 16         \* number of states of the modelled random stream
MaxWallRecords == 30  \* cap on PlacedBaseWalls (a packing loop that never ends)
RoomX == 3             \* GridSize.X of the rooms explored
RoomY == 2             \* GridSize.Y of the rooms explored
MaxSeed == 3          \* GenerationSeed ranges over 0..MaxSeed
CeilX == 5            \* GridSize.X of the largest room given a ceiling
CeilY == 9            \* GridSize.Y of the largest room given a ceiling

(* Program constants.                                                      *)

CELL_SIZE == 100
MaxAttempts == 10
CeilingTileCells == 4
SmallTileSeedOffset == 1000
FallbackLayerHeight == 100

Null == "null"        \* a null UStaticMesh* (an asset reference that failed to load)
nullptr == [IsNull |-> TRUE]  \* a null pointer to a data asset
NoMesh == "none"      \* a TSoftObjectPtr with no path assigned
BadMesh == "bad"      \* a TSoftObjectPtr whose asset cannot be loaded

ECT_Empty == "Empty"
ECT_FloorMesh == "FloorMesh"
ECT_Wall == "Wall"
ECT_Doorway == "Doorway"

Min2(a, b) == IF a < b THEN a ELSE b
Max2(a, b) == IF a > b THEN a ELSE b
Clamp(v, lo, hi) == IF v < lo THEN lo ELSE IF v < hi THEN v ELSE hi

-----------------------------------------------------------------------------
(* TSoftObjectPtr<UStaticMesh>: asset resolution.                          *)

Loadable(m) == m \notin {NoMesh, BadMesh, Null}

\* LoadSynchronous(): the mesh, or Null; the asset becomes resident.
LoadSynchronous(m) == IF Loadable(m) THEN m ELSE Null
AfterLoad(m, loaded) == IF Loadable(m) THEN loaded \cup {m} ELSE loaded

\* IsPending(): a path is assigned and the asset is not resident.
IsPending(m, loaded) == m # NoMesh /\ m \notin loaded

\* Get(): the mesh if it is resident.
GetResident(m, loaded) == IF m \in loaded THEN m ELSE Null

-----------------------------------------------------------------------------
(* FRandomStream: a linear congruential generator (the engine's is         *)
(* Seed * 196314165 + 907633515 on 32 bits; the model keeps the shape on   *)
(* RandMod states).  A stream is its current seed.                         *)

NewStream(seed) == seed % RandMod

MutateSeed(s) == (s * 5 + 3) % RandMod

\* FRand(): a fraction in [0, 1), as the numerator over RandMod.
FRandNum(s) == MutateSeed(s)

\* RandRange(lo, hi): lo + trunc(fraction * range); no draw if range <= 0.
RandRangeValue(s, lo, hi) ==
    IF hi - lo + 1 > 0 THEN lo + (MutateSeed(s) * (hi - lo + 1)) \div RandMod ELSE lo

RandRangeStream(s, lo, hi) == IF hi - lo + 1 > 0 THEN MutateSeed(s) ELSE s

-----------------------------------------------------------------------------
(* Weighted selection.                                                     *)

RECURSIVE SumWeights(_, _)
SumWeights(pool, n) ==
    IF n = 0 THEN 0 ELSE SumWeights(pool, n - 1) + pool[n].PlacementWeight

\* The walk of the pool: the first index whose cumulative weight is >= r,
\* with r = num / RandMod * total; 0 if there is none.
RECURSIVE FirstReaching(_, _, _, _, _)
FirstReaching(pool, i, cum, num, total) ==
    IF i > Len(pool) THEN 0
    ELSE IF num * total <= (cum + pool[i].PlacementWeight) * RandMod THEN i
    ELSE FirstReaching(pool, i + 1, cum + pool[i].PlacementWeight, num, total)

SelectWeightedMeshMutNoWalk(pool, s) ==
    IF Len(pool) = 0 THEN [idx |-> 0, stream |-> s]
    ELSE [idx |-> Len(pool), stream |-> MutateSeed(s)]

\* AMasterRoom::SelectWeightedMesh: the index of the chosen entry (0 for
\* nullptr) and the stream after the draw.
SelectWeightedMesh(pool, s) ==
    IF Len(pool) = 0 THEN [idx |-> 0, stream |-> s]
    ELSE LET total == SumWeights(pool, Len(pool)) IN
         IF total <= 0
         THEN [idx |-> RandRangeValue(s, 0, Len(pool) - 1) + 1,
               stream |-> RandRangeStream(s, 0, Len(pool) - 1)]
         ELSE LET i == FirstReaching(pool, 1, 0, FRandNum(s), total) IN
              [idx |-> IF i = 0 THEN Len(pool) ELSE i, stream |-> MutateSeed(s)]

-----------------------------------------------------------------------------
(* Interior packing.                                                       *)

CellIndex(x, y, W) == y * W + x

\* An instance added to a HISM bucket.  cell and fp are the anchor cell and
\* the footprint the instance was placed for; edge is the wall edge or "-".
Inst(kind, mesh, pos, yaw, cell, fp, edge) ==
    [kind |-> kind, mesh |-> mesh, pos |-> pos, yaw |-> yaw,
     cell |-> cell, fp |-> fp, edge |-> edge]

\* The footprint taken as it is, whatever the rotation.
RotatedFootprintMutNoSwap(info, yaw) == info.GridFootprint

\* Rotations of 90 and 270 swap the footprint.
RotatedFootprint(info, yaw) ==
    IF yaw = 90 \/ yaw = 270
    THEN <<info.GridFootprint[2], info.GridFootprint[1]>>
    ELSE info.GridFootprint

FootprintCells(x, y, fp) ==
    {<<x + dx, y + dy>> : dx \in 0..(fp[1] - 1), dy \in 0..(fp[2] - 1)}

AllEmptyMutNoCheck(grid, cells, W) == TRUE

\* The overlap check: every covered cell with a valid index is Empty.
AllEmpty(grid, cells, W) ==
    \A c \in cells :
        CellIndex(c[1], c[2], W) \in DOMAIN grid => grid[CellIndex(c[1], c[2], W)] = ECT_Empty

MarkFloor(grid, cells, W) ==
    [i \in DOMAIN grid |->
        IF \E c \in cells : CellIndex(c[1], c[2], W) = i THEN ECT_FloorMesh ELSE grid[i]]

\* (X + fw / 2) * CELL_SIZE, (Y + fh / 2) * CELL_SIZE, 0
CenterLocation(x, y, fp) ==
    <<x * CELL_SIZE + (fp[1] * CELL_SIZE) \div 2, y * CELL_SIZE + (fp[2] * CELL_SIZE) \div 2, 0>>

\* The body of the loop marking the cells of an in-bounds entry that
\* collides.
ForcedPlacementStepMutMarksOnOverlap(st, entry, GridSize) ==
    LET info == entry.Value
        start == entry.Key
        Mesh == LoadSynchronous(info.MeshAsset)
        loaded1 == AfterLoad(info.MeshAsset, st.loaded)
    IN  IF Mesh = Null THEN st
        ELSE
        LET n == Len(info.AllowedRotations)
            yaw == info.AllowedRotations[RandRangeValue(st.stream, 0, n - 1) + 1]
            s1 == RandRangeStream(st.stream, 0, n - 1)
            fp == RotatedFootprint(info, yaw)
            inBounds == ~(start[1] < 0 \/ start[2] < 0
                          \/ start[1] + fp[1] > GridSize[1]
                          \/ start[2] + fp[2] > GridSize[2])
            cells == FootprintCells(start[1], start[2], fp)
        IN  IF inBounds /\ AllEmpty(st.grid, cells, GridSize[1])
            THEN [grid |-> MarkFloor(st.grid, cells, GridSize[1]),
                  inst |-> Append(st.inst,
                              Inst("forced", Mesh, CenterLocation(start[1], start[2], fp),
                                   yaw, start, fp, "-")),
                  stream |-> s1, loaded |-> loaded1]
            ELSE IF inBounds
            THEN [st EXCEPT !.grid = MarkFloor(st.grid, cells, GridSize[1]),
                            !.stream = s1, !.loaded = loaded1]
            ELSE [st EXCEPT !.stream = s1, !.loaded = loaded1]

\* One entry of ForcedInteriorPlacements (the body of the loop).
ForcedPlacementStep(st, entry, GridSize) ==
    LET info == entry.Value
        start == entry.Key
        Mesh == LoadSynchronous(info.MeshAsset)
        loaded1 == AfterLoad(info.MeshAsset, st.loaded)
    IN  IF Mesh = Null THEN st
        ELSE
        LET n == Len(info.AllowedRotations)
            yaw == info.AllowedRotations[RandRangeValue(st.stream, 0, n - 1) + 1]
            s1 == RandRangeStream(st.stream, 0, n - 1)
            fp == RotatedFootprint(info, yaw)
            inBounds == ~(start[1] < 0 \/ start[2] < 0
                          \/ start[1] + fp[1] > GridSize[1]
                          \/ start[2] + fp[2] > GridSize[2])
            cells == FootprintCells(start[1], start[2], fp)
            bCanPlace == inBounds /\ AllEmpty(st.grid, cells, GridSize[1])
        IN  IF bCanPlace
            THEN [grid |-> MarkFloor(st.grid, cells, GridSize[1]),
                  inst |-> Append(st.inst,
                              Inst("forced", Mesh, CenterLocation(start[1], start[2], fp),
                                   yaw, start, fp, "-")),
                  stream |-> s1, loaded |-> loaded1]
            ELSE [st EXCEPT !.stream = s1, !.loaded = loaded1]

RECURSIVE ForcedPlacementsFrom(_, _, _, _)
ForcedPlacementsFrom(st, placements, k, GridSize) ==
    IF k > Len(placements) THEN st
    ELSE ForcedPlacementsFrom(ForcedPlacementStep(st, placements[k], GridSize),
                              placements, k + 1, GridSize)

\* AMasterRoom::ExecuteForcedPlacements
ExecuteForcedPlacements(st, placements, GridSize) ==
    ForcedPlacementsFrom(st, placements, 1, GridSize)

\* The cells of one FForcedEmptyRegion: min/max normalised, clamped to the grid.
RegionCells(region, GridSize) ==
    LET MinX == Clamp(Min2(region.StartCell[1], region.EndCell[1]), 0, GridSize[1] - 1)
        MaxX == Clamp(Max2(region.StartCell[1], region.EndCell[1]), 0, GridSize[1] - 1)
        MinY == Clamp(Min2(region.StartCell[2], region.EndCell[2]), 0, GridSize[2] - 1)
        MaxY == Clamp(Max2(region.StartCell[2], region.EndCell[2]), 0, GridSize[2] - 1)
    IN  {<<x, y>> : x \in MinX..MaxX, y \in MinY..MaxY}

InGrid(c, GridSize) ==
    c[1] >= 0 /\ c[1] < GridSize[1] /\ c[2] >= 0 /\ c[2] < GridSize[2]

RECURSIVE RegionsCells(_, _, _)
RegionsCells(regions, n, GridSize) ==
    IF n = 0 THEN {}
    ELSE RegionsCells(regions, n - 1, GridSize) \cup RegionCells(regions[n], GridSize)

SeqCellsInGrid(cells, GridSize) ==
    {cells[i] : i \in {j \in 1..Len(cells) : InGrid(cells[j], GridSize)}}

ExpandForcedEmptyRegionsMutNone(preset, regions, cells, GridSize) == {}

\* AMasterRoom::ExpandForcedEmptyRegions: the de-duplicated cells (the order
\* of the list does not matter to its only caller, which marks each cell).
ExpandForcedEmptyRegions(preset, regions, cells, GridSize) ==
    (IF preset = nullptr THEN {}
     ELSE RegionsCells(preset.EmptyRegions, Len(preset.EmptyRegions), GridSize)
          \cup SeqCellsInGrid(preset.EmptyCells, GridSize))
    \cup RegionsCells(regions, Len(regions), GridSize)
    \cup SeqCellsInGrid(cells, GridSize)

\* Reserve the forced-empty cells that are still Empty.
MarkForcedEmpty(grid, empties, W) ==
    [i \in DOMAIN grid |->
        IF grid[i] = ECT_Empty /\ (\E c \in empties : CellIndex(c[1], c[2], W) = i)
        THEN ECT_Wall ELSE grid[i]]

\* One cell of the weighted scan (the body of the X loop of pass 1).
ScanCell(st, i, pool, GridSize) ==
    LET W == GridSize[1]
        X == i % W
        Y == i \div W
    IN  IF st.grid[i] # ECT_Empty THEN st
        ELSE
        LET sel == SelectWeightedMesh(pool, st.stream) IN
        IF sel.idx = 0 THEN st
        ELSE
        LET info == pool[sel.idx] IN
        IF IsPending(info.MeshAsset, st.loaded)
        THEN [st EXCEPT !.stream = sel.stream,
                        !.loaded = AfterLoad(info.MeshAsset, st.loaded)]
        ELSE
        LET Mesh == GetResident(info.MeshAsset, st.loaded) IN
        IF Mesh = Null THEN [st EXCEPT !.stream = sel.stream]
        ELSE
        LET n == Len(info.AllowedRotations)
            yaw == info.AllowedRotations[RandRangeValue(sel.stream, 0, n - 1) + 1]
            s1 == RandRangeStream(sel.stream, 0, n - 1)
            fp == RotatedFootprint(info, yaw)
            inBounds == ~(X + fp[1] > GridSize[1] \/ Y + fp[2] > GridSize[2])
            cells == FootprintCells(X, Y, fp)
            bCanPlace == inBounds /\ AllEmpty(st.grid, cells, W)
        IN  IF bCanPlace
            THEN [grid |-> MarkFloor(st.grid, cells, W),
                  inst |-> Append(st.inst,
                              Inst("floor", Mesh, CenterLocation(X, Y, fp), yaw,
                                   <<X, Y>>, fp, "-")),
                  stream |-> s1, loaded |-> st.loaded]
            ELSE [st EXCEPT !.stream = s1]

RECURSIVE ScanFrom(_, _, _, _)
ScanFrom(st, i, pool, GridSize) ==
    IF i >= GridSize[1] * GridSize[2] THEN st
    ELSE LET st1 == ScanCell(st, i, pool, GridSize)
         IN  \* the test evaluates the cell before the loop moves on
             IF st1.stream >= 0 THEN ScanFrom(st1, i + 1, pool, GridSize) ELSE st1

\* Pass 1: weighted and large mesh placement, rows outer, columns inner.
WeightedScan(st, pool, GridSize) == ScanFrom(st, 0, pool, GridSize)

RECURSIVE FillFrom(_, _, _, _)
FillFrom(st, i, FillerMesh, GridSize) ==
    IF i >= GridSize[1] * GridSize[2] THEN st
    ELSE LET X == i % GridSize[1]
             Y == i \div GridSize[1]
         IN  IF st.grid[i] = ECT_Empty
             THEN FillFrom([st EXCEPT
                              !.grid = [st.grid EXCEPT ![i] = ECT_FloorMesh],
                              !.inst = Append(st.inst,
                                  Inst("filler", FillerMesh, CenterLocation(X, Y, <<1, 1>>),
                                       0, <<X, Y>>, <<1, 1>>, "-"))],
                           i + 1, FillerMesh, GridSize)
             ELSE FillFrom(st, i + 1, FillerMesh, GridSize)

GapFillMutLoadOnly(st, filler, GridSize) ==
    [st EXCEPT !.loaded = AfterLoad(filler, st.loaded)]

\* Pass 2: gap filling with the default 1x1 tile, if it loads.
GapFill(st, filler, GridSize) ==
    LET FillerMesh == LoadSynchronous(filler)
        st1 == [st EXCEPT !.loaded = AfterLoad(filler, st.loaded)]
    IN  IF FillerMesh = Null THEN st1 ELSE FillFrom(st1, 0, FillerMesh, GridSize)

\* AMasterRoom::GenerateFloorAndInterior, on st = [grid, inst, stream, loaded]
\* (the stream field is set here: a fresh stream from the seed).
GenerateFloorAndInterior(st, room, seed, preset, regions, cells, placements) ==
    IF room = nullptr THEN st
    ELSE LET FloorData == room.FloorStyleData IN
         IF FloorData = nullptr THEN st
         ELSE
         LET GridSize == room.GridSize
             st0 == [st EXCEPT !.stream = NewStream(seed)]
             st1 == ExecuteForcedPlacements(st0, placements, GridSize)
             empties == ExpandForcedEmptyRegions(preset, regions, cells, GridSize)
             st2 == [st1 EXCEPT !.grid = MarkForcedEmpty(st1.grid, empties, GridSize[1])]
             st3 == WeightedScan(st2, FloorData.FloorTilePool, GridSize)
         IN  GapFill(st3, FloorData.DefaultFillerTile, GridSize)

\* AMasterRoom::ClearAndResetComponents: the grid after the reset.
ResetGrid(room) ==
    IF room = nullptr THEN <<>>
    ELSE [i \in 0..(room.GridSize[1] * room.GridSize[2] - 1) |-> ECT_Empty]

-----------------------------------------------------------------------------
(* Wall edges.                                                             *)

\* The order in which GenerateWallsAndDoors processes the edges.
Edges == <<"North", "South", "East", "West">>

\* The edge cells taken from the outermost interior row or column.
GetCellsForEdgeMutInterior(Edge, GridSize) ==
    CASE Edge = "North" -> [i \in 1..GridSize[2] |-> <<GridSize[1] - 1, i - 1>>]
      [] Edge = "South" -> [i \in 1..GridSize[2] |-> <<0, i - 1>>]
      [] Edge = "East"  -> [i \in 1..GridSize[1] |-> <<i - 1, GridSize[2] - 1>>]
      [] Edge = "West"  -> [i \in 1..GridSize[1] |-> <<i - 1, 0>>]

\* AMasterRoom::GetCellsForEdge: virtual boundary cells outside the grid.
GetCellsForEdge(Edge, GridSize) ==
    CASE Edge = "North" -> [i \in 1..GridSize[2] |-> <<GridSize[1], i - 1>>]
      [] Edge = "South" -> [i \in 1..GridSize[2] |-> <<-1, i - 1>>]
      [] Edge = "East"  -> [i \in 1..GridSize[1] |-> <<i - 1, GridSize[2]>>]
      [] Edge = "West"  -> [i \in 1..GridSize[1] |-> <<i - 1, -1>>]

\* EdgeSize as CanFitDoor and GetValidDoorLocations compute it.
EdgeSize(Edge, GridSize) ==
    IF Edge = "North" \/ Edge = "South" THEN GridSize[2] ELSE GridSize[1]

\* AMasterRoom::GetWallRotationForEdge (yaw, degrees).
GetWallRotationForEdge(Edge) ==
    CASE Edge = "East"  -> 270
      [] Edge = "West"  -> 90
      [] Edge = "North" -> 180
      [] Edge = "South" -> 0

\* AMasterRoom::CalculateNorthSouthWallPosition (actor at the origin).
CalculateNorthSouthWallPosition(X, StartY, WallMeshLength, bIsNorthWall, WallData) ==
    IF bIsNorthWall
    THEN <<X * CELL_SIZE + WallData.NorthWallOffsetX,
           StartY * CELL_SIZE + WallMeshLength \div 2, 0>>
    ELSE <<X * CELL_SIZE + CELL_SIZE + WallData.SouthWallOffsetX,
           StartY * CELL_SIZE + WallMeshLength \div 2, 0>>

\* AMasterRoom::CalculateEastWestWallPosition (actor at the origin).
CalculateEastWestWallPosition(StartX, Y, WallMeshLength, bIsEastWall, WallData) ==
    IF bIsEastWall
    THEN <<StartX * CELL_SIZE + WallMeshLength \div 2,
           Y * CELL_SIZE + WallData.EastWallOffsetY, 0>>
    ELSE <<StartX * CELL_SIZE + WallMeshLength \div 2,
           Y * CELL_SIZE + CELL_SIZE + WallData.WestWallOffsetY, 0>>

\* The position of a wall module of the given footprint starting at EdgeCells[cell].
WallPosition(Edge, cell, Footprint, GridSize, WallData) ==
    LET p == GetCellsForEdge(Edge, GridSize)[cell + 1] IN
    IF Edge = "North" \/ Edge = "South"
    THEN CalculateNorthSouthWallPosition(p[1], p[2], Footprint * CELL_SIZE,
                                         Edge = "North", WallData)
    ELSE CalculateEastWestWallPosition(p[1], p[2], Footprint * CELL_SIZE,
                                       Edge = "East", WallData)

\* AMasterRoom::CalculateDoorPosition: the centre of interior cell StartCell
\* of the row next to the edge (actor at the origin).
CalculateDoorPosition(Edge, StartCell, GridSize) ==
    CASE Edge = "North" -> <<(GridSize[1] - 1) * CELL_SIZE + CELL_SIZE \div 2,
                             StartCell * CELL_SIZE + CELL_SIZE \div 2, 0>>
      [] Edge = "South" -> <<CELL_SIZE \div 2, StartCell * CELL_SIZE + CELL_SIZE \div 2, 0>>
      [] Edge = "East"  -> <<StartCell * CELL_SIZE + CELL_SIZE \div 2,
                             (GridSize[2] - 1) * CELL_SIZE + CELL_SIZE \div 2, 0>>
      [] Edge = "West"  -> <<StartCell * CELL_SIZE + CELL_SIZE \div 2, CELL_SIZE \div 2, 0>>

\* float -> int32 conversion of n / 2.0: truncation toward zero.
TruncHalf(n) == IF n >= 0 THEN n \div 2 ELSE -((-n) \div 2)

AddVec(a, b) == <<a[1] + b[1], a[2] + b[2], a[3] + b[3]>>

\* FMath::Max(1, DoorData->FrameFootprintY)
DoorFootprint(DoorData) == Max2(1, DoorData.FrameFootprintY)

\* TMap::Add on the occupancy map (an existing key is overwritten).
MapAdd(map, key, val) ==
    [k \in DOMAIN map \cup {key} |-> IF k = key THEN val ELSE map[k]]

RECURSIVE MapAddAll(_, _, _, _)
MapAddAll(map, keys, n, val) ==
    IF n = 0 THEN map ELSE MapAdd(MapAddAll(map, keys, n - 1, val), keys[n], val)

-----------------------------------------------------------------------------
(* Procedural doors.                                                       *)

RECURSIVE SumDoorWeights(_, _)
SumDoorWeights(pool, n) ==
    IF n = 0 THEN 0
    ELSE SumDoorWeights(pool, n - 1)
         + (IF pool[n] = nullptr THEN 0 ELSE pool[n].PlacementWeight)

RECURSIVE FirstDoorReaching(_, _, _, _, _)
FirstDoorReaching(pool, i, cum, num, total) ==
    IF i > Len(pool) THEN 0
    ELSE IF pool[i] = nullptr THEN FirstDoorReaching(pool, i + 1, cum, num, total)
    ELSE IF num * total <= (cum + pool[i].PlacementWeight) * RandMod THEN i
    ELSE FirstDoorReaching(pool, i + 1, cum + pool[i].PlacementWeight, num, total)

\* AMasterRoom::SelectRandomDoorFromPool: the door (or Null) and the stream.
SelectRandomDoorFromPool(DoorData, s) ==
    IF DoorData = nullptr THEN [door |-> nullptr, stream |-> s]
    ELSE IF Len(DoorData.DoorStylePool) = 0 THEN [door |-> DoorData, stream |-> s]
    ELSE LET pool == DoorData.DoorStylePool
             total == SumDoorWeights(pool, Len(pool))
         IN  IF total <= 0
             THEN [door |-> pool[RandRangeValue(s, 0, Len(pool) - 1) + 1],
                   stream |-> RandRangeStream(s, 0, Len(pool) - 1)]
             ELSE LET i == FirstDoorReaching(pool, 1, 0, FRandNum(s), total) IN
                  [door |-> IF i = 0 THEN pool[1] ELSE pool[i], stream |-> MutateSeed(s)]

\* The doors of an edge that carry door data, as <<Start, End>> ranges.
DoorRangesOn(Edge, doors) ==
    LET idx == {i \in 1..Len(doors) : doors[i].WallEdge = Edge /\ doors[i].DoorData # nullptr}
        F[n \in 0..Len(doors)] ==
            IF n = 0 THEN <<>>
            ELSE IF n \in idx
                 THEN Append(F[n - 1], <<doors[n].StartCell,
                                         doors[n].StartCell + DoorFootprint(doors[n].DoorData)>>)
                 ELSE F[n - 1]
    IN  F[Len(doors)]

\* Sort by start position (insertion sort).
RECURSIVE InsertRange(_, _)
InsertRange(sorted, r) ==
    IF sorted = <<>> THEN <<r>>
    ELSE IF r[1] < Head(sorted)[1] THEN <<r>> \o sorted
    ELSE <<Head(sorted)>> \o InsertRange(Tail(sorted), r)

RECURSIVE SortRanges(_)
SortRanges(ranges) ==
    IF ranges = <<>> THEN <<>>
    ELSE InsertRange(SortRanges(SubSeq(ranges, 1, Len(ranges) - 1)), ranges[Len(ranges)])

RECURSIVE GapsFrom(_, _, _, _)
GapsFrom(ranges, k, CurrentPos, acc) ==
    IF k > Len(ranges) THEN [pos |-> CurrentPos, gaps |-> acc]
    ELSE GapsFrom(ranges, k + 1, ranges[k][2],
                  IF ranges[k][1] > CurrentPos
                  THEN Append(acc, <<CurrentPos, ranges[k][1] - CurrentPos>>)
                  ELSE acc)

GetValidDoorLocationsMutWholeEdge(Edge, doors, GridSize) ==
    <<<<0, EdgeSize(Edge, GridSize)>>>>

\* AMasterRoom::GetValidDoorLocations: the gaps <<GapStart, GapSize>>.
GetValidDoorLocations(Edge, doors, GridSize) ==
    LET r == GapsFrom(SortRanges(DoorRangesOn(Edge, doors)), 1, 0, <<>>) IN
    IF r.pos < EdgeSize(Edge, GridSize)
    THEN Append(r.gaps, <<r.pos, EdgeSize(Edge, GridSize) - r.pos>>)
    ELSE r.gaps

\* The door-draw loop: up to MaxAttempts weighted draws for a door that fits.
RECURSIVE DrawFittingDoor(_, _, _, _)
DrawFittingDoor(DoorData, s, Attempts, GapSize) ==
    IF Attempts >= MaxAttempts THEN [door |-> nullptr, stream |-> s]
    ELSE LET c == SelectRandomDoorFromPool(DoorData, s) IN
         IF c.door # nullptr /\ DoorFootprint(c.door) <= GapSize
         THEN c
         ELSE DrawFittingDoor(DoorData, c.stream, Attempts + 1, GapSize)

\* One entry of EdgesToProcess (the body of the placement loop), on
\* d = [doors, stream].
PlaceDoorOnEdge(d, Edge, DoorData, GridSize) ==
    LET ValidSpots == GetValidDoorLocations(Edge, d.doors, GridSize) IN
    IF Len(ValidSpots) = 0 THEN d
    ELSE
    LET gapIdx == RandRangeValue(d.stream, 0, Len(ValidSpots) - 1) + 1
        s1 == RandRangeStream(d.stream, 0, Len(ValidSpots) - 1)
        GapStart == ValidSpots[gapIdx][1]
        GapSize == ValidSpots[gapIdx][2]
        sel == DrawFittingDoor(DoorData, s1, 0, GapSize)
    IN  IF sel.door = nullptr THEN [d EXCEPT !.stream = sel.stream]
        ELSE
        LET MaxOffset == GapSize - DoorFootprint(sel.door)
            RandomOffset == IF MaxOffset > 0 THEN RandRangeValue(sel.stream, 0, MaxOffset) ELSE 0
            s2 == IF MaxOffset > 0 THEN RandRangeStream(sel.stream, 0, MaxOffset) ELSE sel.stream
        IN  [doors |-> Append(d.doors,
                          [WallEdge |-> Edge, StartCell |-> GapStart + RandomOffset,
                           DoorData |-> sel.door, FramePositionOffset |-> <<0, 0, 0>>]),
             stream |-> s2]

RECURSIVE PlaceDoorsFrom(_, _, _, _, _)
PlaceDoorsFrom(d, EdgesToProcess, k, DoorData, GridSize) ==
    IF k > Len(EdgesToProcess) THEN d
    ELSE PlaceDoorsFrom(PlaceDoorOnEdge(d, EdgesToProcess[k], DoorData, GridSize),
                        EdgesToProcess, k + 1, DoorData, GridSize)

Swap(seq, i, j) == [seq EXCEPT ![i] = seq[j], ![j] = seq[i]]

\* Fisher-Yates shuffle of the four edges: for i = 3 down to 1, swap with
\* RandRange(0, i).  On e = [edges, stream].
RECURSIVE ShuffleFrom(_, _)
ShuffleFrom(e, i) ==
    IF i <= 0 THEN e
    ELSE ShuffleFrom([edges |-> Swap(e.edges, i + 1, RandRangeValue(e.stream, 0, i) + 1),
                      stream |-> RandRangeStream(e.stream, 0, i)], i - 1)

\* The edges to process and the stream after choosing them.
ChooseDoorEdges(s, required, minDoors, maxDoors) ==
    IF Len(required) > 0 THEN [edges |-> required, stream |-> s]
    ELSE LET NumDoorsToPlace == RandRangeValue(s, minDoors, maxDoors)
             sh == ShuffleFrom([edges |-> Edges,
                                stream |-> RandRangeStream(s, minDoors, maxDoors)],
                               Len(Edges) - 1)
         IN  [edges |-> SubSeq(sh.edges, 1, Min2(Max2(NumDoorsToPlace, 0), Len(Edges))),
              stream |-> sh.stream]

\* PlaceProceduralDoors on a stream the interior phase has drawn from: one
\* draw for every entry of the floor pool.
PlaceProceduralDoorsMutSharedStream(doors, s, room, required, minDoors, maxDoors) ==
    IF room = nullptr \/ room.DoorStyleData = nullptr THEN [doors |-> doors, stream |-> s]
    ELSE LET drawn == IF room.FloorStyleData = nullptr THEN 0
                      ELSE Len(room.FloorStyleData.FloorTilePool)
             ch == ChooseDoorEdges(NewStream(s + drawn), required, minDoors, maxDoors)
         IN  PlaceDoorsFrom([doors |-> doors, stream |-> ch.stream], ch.edges, 1,
                            room.DoorStyleData, room.GridSize)

\* AMasterRoom::PlaceProceduralDoors: FixedDoorLocations and the stream after.
PlaceProceduralDoors(doors, s, room, required, minDoors, maxDoors) ==
    IF room = nullptr \/ room.DoorStyleData = nullptr THEN [doors |-> doors, stream |-> s]
    ELSE LET ch == ChooseDoorEdges(s, required, minDoors, maxDoors) IN
         PlaceDoorsFrom([doors |-> doors, stream |-> ch.stream], ch.edges, 1,
                        room.DoorStyleData, room.GridSize)

-----------------------------------------------------------------------------
(* Forced walls.                                                           *)

WallRecord(Edge, StartCell, Length, pos, Mesh, Module, bForced) ==
    [Edge |-> Edge, StartCell |-> StartCell, SegmentLength |-> Length,
     BaseTransform |-> [pos |-> pos, yaw |-> GetWallRotationForEdge(Edge)],
     BaseMesh |-> Mesh, WallModule |-> Module, bForced |-> bForced]

\* The cells StartCell .. StartCell + Footprint - 1 of an edge, as a sequence.
SpanCells(EdgeCells, StartCell, Footprint) ==
    [j \in 1..Footprint |-> EdgeCells[StartCell + j]]

ForcedWallFreeMutIgnoreOccupancy(occ, EdgeCells, StartCell, Footprint) == TRUE

\* The occupancy check of PlaceForcedWalls: no target cell is in OccupancyGrid.
ForcedWallFree(occ, EdgeCells, StartCell, Footprint) ==
    \A j \in 0..(Footprint - 1) : EdgeCells[StartCell + j + 1] \notin DOMAIN occ

\* One entry of ForcedWalls (the body of the loop), on
\* w = [occ, walls, inst, loaded].
ForcedWallStep(w, fw, GridSize, WallData) ==
    LET Module == fw.WallModule
        BaseMesh == LoadSynchronous(Module.BaseMesh)
        w1 == [w EXCEPT !.loaded = AfterLoad(Module.BaseMesh, w.loaded)]
        EdgeCells == GetCellsForEdge(fw.Edge, GridSize)
        Footprint == Module.Y_AxisFootprint
    IN  IF BaseMesh = Null THEN w1
        ELSE IF Len(EdgeCells) = 0 THEN w1
        ELSE IF fw.StartCell < 0 \/ fw.StartCell + Footprint > Len(EdgeCells) THEN w1
        ELSE IF ~ForcedWallFree(w.occ, EdgeCells, fw.StartCell, Footprint) THEN w1
        ELSE LET pos == WallPosition(fw.Edge, fw.StartCell, Footprint, GridSize, WallData) IN
             [occ |-> MapAddAll(w.occ, SpanCells(EdgeCells, fw.StartCell, Footprint),
                                Footprint, ECT_Wall),
              walls |-> Append(w.walls,
                           WallRecord(fw.Edge, fw.StartCell, Footprint, pos, BaseMesh,
                                      Module, TRUE)),
              inst |-> Append(w.inst,
                          Inst("wall", BaseMesh, pos, GetWallRotationForEdge(fw.Edge),
                               <<fw.StartCell, 0>>, <<Footprint, 1>>, fw.Edge)),
              loaded |-> w1.loaded]

RECURSIVE ForcedWallsFrom(_, _, _, _, _)
ForcedWallsFrom(w, forced, k, GridSize, WallData) ==
    IF k > Len(forced) THEN w
    ELSE ForcedWallsFrom(ForcedWallStep(w, forced[k], GridSize, WallData),
                         forced, k + 1, GridSize, WallData)

\* AMasterRoom::PlaceForcedWalls
PlaceForcedWalls(w, forced, GridSize, WallData) ==
    ForcedWallsFrom(w, forced, 1, GridSize, WallData)

-----------------------------------------------------------------------------
(* The per-edge pass of GenerateWallsAndDoors.                             *)

\* CellOccupied[i] = OccupancyGrid.Contains(EdgeCells[i])
InitialOccupied(occ, EdgeCells) ==
    [i \in 1..Len(EdgeCells) |-> EdgeCells[i] \in DOMAIN occ]

\* The edge indices (0-based) a door marks: StartCell + i for i < footprint,
\* as long as StartCell + i is below the edge length, and not negative.
DoorMarkedCells(StartCell, Footprint, Num) ==
    {c \in StartCell..(StartCell + Footprint - 1) : c < Num /\ c >= 0}

DoorCenterPosMutStartCell(Edge, StartCell, Footprint, Offset, GridSize) ==
    AddVec(CalculateDoorPosition(Edge, StartCell, GridSize), Offset)

\* The position of the door frame: CalculateDoorPosition at the middle cell
\* (StartCell + footprint / 2.0, converted to int32) plus the per-door offset.
DoorCenterPos(Edge, StartCell, Footprint, Offset, GridSize) ==
    AddVec(CalculateDoorPosition(Edge, TruncHalf(2 * StartCell + Footprint), GridSize),
           Offset)

\* One entry of FixedDoorLocations in pass 1 of an edge, on
\* e = [occupied, occ, inst, loaded].
DoorStep(e, DoorLoc, Edge, GridSize) ==
    IF DoorLoc.WallEdge # Edge \/ DoorLoc.DoorData = nullptr THEN e
    ELSE
    LET DoorData == DoorLoc.DoorData
        fp == DoorFootprint(DoorData)
        EdgeCells == GetCellsForEdge(Edge, GridSize)
        FrameSideMesh == LoadSynchronous(DoorData.FrameSideMesh)
        marked == DoorMarkedCells(DoorLoc.StartCell, fp, Len(EdgeCells))
        inst1 == IF FrameSideMesh = Null THEN e.inst
                 ELSE Append(e.inst,
                        Inst("door", FrameSideMesh,
                             DoorCenterPos(Edge, DoorLoc.StartCell, fp,
                                           DoorLoc.FramePositionOffset, GridSize),
                             GetWallRotationForEdge(Edge) + DoorData.FrameRotationOffset,
                             <<DoorLoc.StartCell, 0>>, <<fp, 1>>, Edge))
    IN  [occupied |-> [i \in 1..Len(EdgeCells) |-> e.occupied[i] \/ (i - 1) \in marked],
         occ |-> [k \in DOMAIN e.occ \cup {EdgeCells[c + 1] : c \in marked} |->
                    IF \E c \in marked : EdgeCells[c + 1] = k THEN ECT_Doorway ELSE e.occ[k]],
         inst |-> inst1,
         loaded |-> AfterLoad(DoorData.FrameSideMesh, e.loaded)]

RECURSIVE DoorsFrom(_, _, _, _, _)
DoorsFrom(e, doors, k, Edge, GridSize) ==
    IF k > Len(doors) THEN e
    ELSE DoorsFrom(DoorStep(e, doors[k], Edge, GridSize), doors, k + 1, Edge, GridSize)

\* Pass 2: the scan for runs of unoccupied cells.  SegmentStart = -1 means
\* no run is open; acc collects the <<SegmentStart, SegmentLength>> pairs in
\* the order FillWallSegment is called on them.
RECURSIVE ScanSegments(_, _, _, _)
ScanSegments(CellOccupied, i, SegmentStart, acc) ==
    IF i >= Len(CellOccupied)
    THEN IF SegmentStart # -1
         THEN Append(acc, <<SegmentStart, Len(CellOccupied) - SegmentStart>>)
         ELSE acc
    ELSE IF ~CellOccupied[i + 1]
         THEN ScanSegments(CellOccupied, i + 1,
                           IF SegmentStart = -1 THEN i ELSE SegmentStart, acc)
         ELSE IF SegmentStart # -1
              THEN ScanSegments(CellOccupied, i + 1, -1,
                                Append(acc, <<SegmentStart, i - SegmentStart>>))
              ELSE ScanSegments(CellOccupied, i + 1, -1, acc)

FindSegmentsMutWholeEdge(CellOccupied) == <<<<0, Len(CellOccupied)>>>>

FindSegments(CellOccupied) == ScanSegments(CellOccupied, 0, -1, <<>>)

\* The module search of FillWallSegment: the index of the largest module
\* that fits, the first one found among equals; 0 if none fits.
RECURSIVE BestFrom(_, _, _, _)
BestFrom(modules, k, RemainingLen, best) ==
    IF k > Len(modules) THEN best
    ELSE IF modules[k].Y_AxisFootprint <= RemainingLen
            /\ (best = 0 \/ modules[k].Y_AxisFootprint > modules[best].Y_AxisFootprint)
         THEN BestFrom(modules, k + 1, RemainingLen, k)
         ELSE BestFrom(modules, k + 1, RemainingLen, best)

\* The module search taking the last of the largest modules that fit.
RECURSIVE BestFromMutLast(_, _, _, _)
BestFromMutLast(modules, k, RemainingLen, best) ==
    IF k > Len(modules) THEN best
    ELSE IF modules[k].Y_AxisFootprint <= RemainingLen
            /\ (best = 0 \/ modules[k].Y_AxisFootprint >= modules[best].Y_AxisFootprint)
         THEN BestFromMutLast(modules, k + 1, RemainingLen, k)
         ELSE BestFromMutLast(modules, k + 1, RemainingLen, best)

BestModuleMutLastAmongEquals(modules, RemainingLen) ==
    BestFromMutLast(modules, 1, RemainingLen, 0)

BestModule(modules, RemainingLen) == BestFrom(modules, 1, RemainingLen, 0)

-----------------------------------------------------------------------------
(* Vertical layers, corners and ceiling.                                   *)

\* UStaticMesh::FindSocket("TopBackCenter"): meshes whose name ends in "S"
\* carry the socket, 150 above their origin and turned by 90 degrees.
HasTopSocket(m) == m \in {"BaseS", "Mid1S", "Mid2S"}
TopSocket(m) == [pos |-> <<0, 50, 150>>, yaw |-> 90]

\* UStaticMesh::GetBounds(): BoxExtent.Z * 2.
BoundsHeight(m) == IF m \in {"Mid1", "Mid1S"} THEN 200 ELSE 100

\* FRotator(0, yaw, 0) applied to a vector, for yaw a multiple of 90.
RotateYaw(v, yaw) ==
    CASE yaw % 360 = 0   -> v
      [] yaw % 360 = 90  -> <<-v[2], v[1], v[3]>>
      [] yaw % 360 = 180 -> <<-v[1], -v[2], v[3]>>
      [] yaw % 360 = 270 -> <<v[2], -v[1], v[3]>>

\* FTransform composition Local * World.
Compose(local, world) ==
    [pos |-> AddVec(world.pos, RotateYaw(local.pos, world.yaw)),
     yaw |-> (world.yaw + local.yaw) % 360]

\* The attachment offset on top of the Base mesh: socket, or 100 high.
BaseAttach(m) ==
    IF HasTopSocket(m) THEN TopSocket(m)
    ELSE [pos |-> <<0, 0, FallbackLayerHeight>>, yaw |-> 0]

\* The attachment offset on top of a Middle mesh: socket, or bounds height.
MiddleAttach(m) ==
    IF HasTopSocket(m) THEN TopSocket(m)
    ELSE [pos |-> <<0, 0, BoundsHeight(m)>>, yaw |-> 0]

LayerInst(kind, mesh, t, seg) ==
    Inst(kind, mesh, t.pos, t.yaw, <<seg.StartCell, 0>>, <<seg.SegmentLength, 1>>, seg.Edge)

\* SpawnMiddleWalls spawning Middle2 whether or not Middle1 was spawned.
MiddleStepMutMiddle2Alone(l, seg) ==
    LET Middle1Mesh == LoadSynchronous(seg.WallModule.Middle1Mesh)
        Middle2Mesh == LoadSynchronous(seg.WallModule.Middle2Mesh)
        Middle1World == Compose(BaseAttach(seg.BaseMesh), seg.BaseTransform)
        inst1 == IF Middle1Mesh = Null THEN l.inst
                 ELSE Append(l.inst, LayerInst("middle1", Middle1Mesh, Middle1World, seg))
        inst2 == IF Middle2Mesh = Null THEN inst1
                 ELSE Append(inst1, LayerInst("middle2", Middle2Mesh,
                                              Compose(MiddleAttach(Middle2Mesh), Middle1World), seg))
    IN  [inst |-> inst2,
         loaded |-> AfterLoad(seg.WallModule.Middle2Mesh,
                              AfterLoad(seg.WallModule.Middle1Mesh, l.loaded))]

\* One record of PlacedBaseWalls in SpawnMiddleWalls, on l = [inst, loaded].
MiddleStep(l, seg) ==
    LET Middle1Mesh == LoadSynchronous(seg.WallModule.Middle1Mesh)
        l1 == [l EXCEPT !.loaded = AfterLoad(seg.WallModule.Middle1Mesh, l.loaded)]
    IN  IF Middle1Mesh = Null THEN l1
        ELSE
        LET Middle1World == Compose(BaseAttach(seg.BaseMesh), seg.BaseTransform)
            Middle2Mesh == LoadSynchronous(seg.WallModule.Middle2Mesh)
            inst1 == Append(l.inst, LayerInst("middle1", Middle1Mesh, Middle1World, seg))
            loaded2 == AfterLoad(seg.WallModule.Middle2Mesh, l1.loaded)
        IN  IF Middle2Mesh = Null THEN [inst |-> inst1, loaded |-> loaded2]
            ELSE [inst |-> Append(inst1,
                              LayerInst("middle2", Middle2Mesh,
                                        Compose(MiddleAttach(Middle1Mesh), Middle1World), seg)),
                  loaded |-> loaded2]

\* SpawnTopWalls stacking Top on the Base mesh whatever lies between.
TopStepMutAlwaysBase(l, seg) ==
    LET TopMesh == LoadSynchronous(seg.WallModule.TopMesh)
        l1 == [l EXCEPT !.loaded = AfterLoad(seg.WallModule.TopMesh, l.loaded)]
    IN  IF TopMesh = Null THEN l1
        ELSE [l1 EXCEPT !.inst =
                 Append(l.inst, LayerInst("top", TopMesh,
                                          Compose(BaseAttach(seg.BaseMesh), seg.BaseTransform),
                                          seg))]

\* One record of PlacedBaseWalls in SpawnTopWalls, on l = [inst, loaded].
TopStep(l, seg) ==
    LET Middle1Mesh == LoadSynchronous(seg.WallModule.Middle1Mesh)
        Middle2Mesh == LoadSynchronous(seg.WallModule.Middle2Mesh)
        TopMesh == LoadSynchronous(seg.WallModule.TopMesh)
        l1 == [l EXCEPT !.loaded =
                  AfterLoad(seg.WallModule.TopMesh,
                     AfterLoad(seg.WallModule.Middle2Mesh,
                        AfterLoad(seg.WallModule.Middle1Mesh, l.loaded)))]
        Middle1World == Compose(BaseAttach(seg.BaseMesh), seg.BaseTransform)
    IN  IF TopMesh = Null THEN l1
        ELSE
        LET TopWorld ==
                IF Middle2Mesh # Null /\ Middle1Mesh # Null
                THEN Compose(MiddleAttach(Middle2Mesh),
                             Compose(MiddleAttach(Middle1Mesh), Middle1World))
                ELSE IF Middle1Mesh # Null
                THEN Compose(MiddleAttach(Middle1Mesh), Middle1World)
                ELSE Compose(BaseAttach(seg.BaseMesh), seg.BaseTransform)
        IN  [l1 EXCEPT !.inst = Append(l.inst, LayerInst("top", TopMesh, TopWorld, seg))]

RECURSIVE MiddleFrom(_, _, _)
MiddleFrom(l, walls, k) ==
    IF k > Len(walls) THEN l ELSE MiddleFrom(MiddleStep(l, walls[k]), walls, k + 1)

RECURSIVE TopFrom(_, _, _)
TopFrom(l, walls, k) ==
    IF k > Len(walls) THEN l ELSE TopFrom(TopStep(l, walls[k]), walls, k + 1)

\* AMasterRoom::SpawnMiddleWalls
SpawnMiddleWalls(l, walls) == MiddleFrom(l, walls, 1)

\* AMasterRoom::SpawnTopWalls
SpawnTopWalls(l, walls) == TopFrom(l, walls, 1)

\* SpawnCorners putting the corners ahead of every other instance.
SpawnCornersMutFirst(l, room) ==
    LET WallData == room.WallStyleData
        CornerMesh == LoadSynchronous(WallData.DefaultCornerMesh)
        l1 == [l EXCEPT !.loaded = AfterLoad(WallData.DefaultCornerMesh, l.loaded)]
        W == room.GridSize[1]
        H == room.GridSize[2]
        Corners == << <<<<0, 0, 0>>, WallData.SouthWestCornerOffset, <<0, 0>>>>,
                      <<<<0, H * CELL_SIZE, 0>>, WallData.SouthEastCornerOffset, <<0, H>>>>,
                      <<<<W * CELL_SIZE, H * CELL_SIZE, 0>>, WallData.NorthEastCornerOffset, <<W, H>>>>,
                      <<<<W * CELL_SIZE, 0, 0>>, WallData.NorthWestCornerOffset, <<W, 0>>>> >>
    IN  IF CornerMesh = Null THEN l1
        ELSE [l1 EXCEPT !.inst =
                 [i \in 1..4 |-> Inst("corner", CornerMesh,
                                      AddVec(Corners[i][1], Corners[i][2]), 0,
                                      Corners[i][3], <<0, 0>>, "-")] \o l.inst]

\* AMasterRoom::SpawnCorners, on l = [inst, loaded].
SpawnCorners(l, room) ==
    LET WallData == room.WallStyleData
        CornerMesh == LoadSynchronous(WallData.DefaultCornerMesh)
        l1 == [l EXCEPT !.loaded = AfterLoad(WallData.DefaultCornerMesh, l.loaded)]
        W == room.GridSize[1]
        H == room.GridSize[2]
        Corners == << <<<<0, 0, 0>>, WallData.SouthWestCornerOffset, <<0, 0>>>>,
                      <<<<0, H * CELL_SIZE, 0>>, WallData.SouthEastCornerOffset, <<0, H>>>>,
                      <<<<W * CELL_SIZE, H * CELL_SIZE, 0>>, WallData.NorthEastCornerOffset, <<W, H>>>>,
                      <<<<W * CELL_SIZE, 0, 0>>, WallData.NorthWestCornerOffset, <<W, 0>>>> >>
    IN  IF CornerMesh = Null THEN l1
        ELSE [l1 EXCEPT !.inst = l.inst \o
                 [i \in 1..4 |-> Inst("corner", CornerMesh,
                                      AddVec(Corners[i][1], Corners[i][2]), 0,
                                      Corners[i][3], <<0, 0>>, "-")]]

\* The weighted walk of a ceiling tile pool: the mesh of the first tile
\* whose cumulative weight reaches the draw, loaded; Null if none does.
CeilingSelect(pool, s, TotalWeight) ==
    LET i == FirstReaching(pool, 1, 0, FRandNum(s), TotalWeight) IN
    IF i = 0 THEN [mesh |-> Null, asset |-> NoMesh]
    ELSE [mesh |-> LoadSynchronous(pool[i].Mesh), asset |-> pool[i].Mesh]

\* IsCellOccupied: cells outside the grid count as occupied.
IsCellOccupied(occupied, c, GridSize) == ~InGrid(c, GridSize) \/ c \in occupied

\* One anchor of a ceiling pass that places its tile without marking the
\* block occupied.
CeilingTileStepMutNoMark(c, X, Y, Size, pool, TotalWeight, CeilingData, GridSize) ==
    LET area == FootprintCells(X, Y, <<Size, Size>>) IN
    IF \E a \in area : IsCellOccupied(c.occupied, a, GridSize) THEN c
    ELSE
    LET sel == CeilingSelect(pool, c.stream, TotalWeight)
        c1 == [c EXCEPT !.stream = MutateSeed(c.stream),
                        !.loaded = AfterLoad(sel.asset, c.loaded)]
    IN  IF sel.mesh = Null THEN c1
        ELSE [c1 EXCEPT
                !.inst = Append(c.inst,
                           Inst(IF Size = 1 THEN "ceiling" ELSE "ceilingLarge", sel.mesh,
                                <<X * CELL_SIZE + (Size * CELL_SIZE) \div 2,
                                  Y * CELL_SIZE + (Size * CELL_SIZE) \div 2,
                                  CeilingData.CeilingHeight>>,
                                CeilingData.CeilingRotation, <<X, Y>>, <<Size, Size>>, "-"))]

\* One anchor of a ceiling pass with square tiles of Size cells, on
\* c = [occupied, inst, stream, loaded].
CeilingTileStep(c, X, Y, Size, pool, TotalWeight, CeilingData, GridSize) ==
    LET area == FootprintCells(X, Y, <<Size, Size>>) IN
    IF \E a \in area : IsCellOccupied(c.occupied, a, GridSize) THEN c
    ELSE
    LET sel == CeilingSelect(pool, c.stream, TotalWeight)
        c1 == [c EXCEPT !.stream = MutateSeed(c.stream),
                        !.loaded = AfterLoad(sel.asset, c.loaded)]
    IN  IF sel.mesh = Null THEN c1
        ELSE [c1 EXCEPT
                !.occupied = c.occupied \cup {a \in area : InGrid(a, GridSize)},
                !.inst = Append(c.inst,
                           Inst(IF Size = 1 THEN "ceiling" ELSE "ceilingLarge", sel.mesh,
                                <<X * CELL_SIZE + (Size * CELL_SIZE) \div 2,
                                  Y * CELL_SIZE + (Size * CELL_SIZE) \div 2,
                                  CeilingData.CeilingHeight>>,
                                CeilingData.CeilingRotation, <<X, Y>>, <<Size, Size>>, "-"))]

\* The anchors of a pass, X outer and Y inner, both advancing by Size.
RECURSIVE CeilingFrom(_, _, _, _, _, _, _, _)
CeilingFrom(c, X, Y, Size, pool, TotalWeight, CeilingData, GridSize) ==
    IF X > GridSize[1] - Size THEN c
    ELSE IF Y > GridSize[2] - Size
         THEN CeilingFrom(c, X + Size, 0, Size, pool, TotalWeight, CeilingData, GridSize)
         ELSE LET c1 == CeilingTileStep(c, X, Y, Size, pool, TotalWeight, CeilingData, GridSize)
              IN  \* the test evaluates the anchor before the loop moves on
                  IF c1.stream >= 0
                  THEN CeilingFrom(c1, X, Y + Size, Size, pool, TotalWeight, CeilingData, GridSize)
                  ELSE c1

\* One pass: skipped if the pool is empty or its total weight is not positive.
CeilingPass(c, pool, seed, Size, CeilingData, GridSize) ==
    IF Len(pool) = 0 THEN c
    ELSE LET TotalWeight == SumWeights(pool, Len(pool)) IN
         IF TotalWeight > 0
         THEN CeilingFrom([c EXCEPT !.stream = NewStream(seed)], 0, 0, Size, pool,
                          TotalWeight, CeilingData, GridSize)
         ELSE c

\* AMasterRoom::GenerateCeiling, on l = [inst, loaded].
GenerateCeiling(l, room, seed) ==
    IF room = nullptr THEN l
    ELSE IF room.CeilingStyleData = nullptr THEN l
    ELSE LET CeilingData == room.CeilingStyleData
             c0 == [occupied |-> {}, inst |-> l.inst, stream |-> 0, loaded |-> l.loaded]
             c1 == CeilingPass(c0, CeilingData.LargeTilePool, seed, CeilingTileCells,
                               CeilingData, room.GridSize)
             c2 == CeilingPass(c1, CeilingData.SmallTilePool, seed + SmallTileSeedOffset,
                               1, CeilingData, room.GridSize)
         IN  [inst |-> c2.inst, loaded |-> c2.loaded]

-----------------------------------------------------------------------------
(* The run, step by step.                                                  *)

EmptyMap == <<>>

\* AMasterRoom::RegenerateRoom up to the first generation step (the actor
\* has authority): a null RoomData returns at once, anything else goes
\* through ClearAndResetComponents.
RegenerateRoom ==
    /\ pc = "idle"
    /\ Runs < MaxRuns
    /\ Runs' = Runs + 1
    /\ Last' = [inst |-> Instances, walls |-> PlacedBaseWalls,
                same |-> Runs >= 1 /\ ~Last.edited, edited |-> FALSE,
                edits |-> Last.pending, pending |-> {}]
    /\ DoorsBefore' = FixedDoorLocations
    /\ SegmentsHanded' = <<>>
    /\ IF RoomData = nullptr
       THEN UNCHANGED <<pc, Instances, InternalGridState>>
       ELSE /\ pc' = "floor"
            /\ Instances' = <<>>
            /\ InternalGridState' = ResetGrid(RoomData)
    /\ UNCHANGED <<designerVars, FixedDoorLocations, OccupancyGrid, PlacedBaseWalls,
                   Loaded, EdgeIndex, Segments, fillVars>>

\* The call of GenerateFloorAndInterior.
GenerateFloor ==
    /\ pc = "floor"
    /\ LET st == GenerateFloorAndInterior(
                    [grid |-> InternalGridState, inst |-> Instances, stream |-> 0,
                     loaded |-> Loaded],
                    RoomData, GenerationSeed, ShapePreset, ForcedEmptyRegions,
                    ForcedEmptyFloorCells, ForcedInteriorPlacements)
       IN  /\ InternalGridState' = st.grid
           /\ Instances' = st.inst
           /\ Loaded' = st.loaded
    /\ pc' = "walls"
    /\ UNCHANGED <<designerVars, FixedDoorLocations, OccupancyGrid, PlacedBaseWalls,
                   EdgeIndex, Segments, SegmentsHanded, fillVars, DoorsBefore, Runs, Last>>

\* GenerateWallsAndDoors adding the procedural doors to the list it finds.
WallsBeginMutKeepsDoors ==
    /\ pc = "walls"
    /\ IF RoomData.WallStyleData = nullptr
       THEN /\ pc' = "ceiling"
            /\ UNCHANGED <<FixedDoorLocations, OccupancyGrid, PlacedBaseWalls, Instances,
                           Loaded, EdgeIndex>>
       ELSE LET d == IF bEnableProceduralDoors
                     THEN PlaceProceduralDoors(FixedDoorLocations, NewStream(GenerationSeed), RoomData,
                                               RequiredDoorEdges, MinProceduralDoors,
                                               MaxProceduralDoors)
                     ELSE [doors |-> FixedDoorLocations, stream |-> NewStream(GenerationSeed)]
                w == PlaceForcedWalls([occ |-> EmptyMap, walls |-> <<>>, inst |-> Instances,
                                       loaded |-> Loaded],
                                      ForcedWalls, RoomData.GridSize, RoomData.WallStyleData)
            IN  /\ FixedDoorLocations' = d.doors
                /\ OccupancyGrid' = w.occ
                /\ PlacedBaseWalls' = w.walls
                /\ Instances' = w.inst
                /\ Loaded' = w.loaded
                /\ EdgeIndex' = 1
                /\ pc' = "edge"
    /\ UNCHANGED <<designerVars, InternalGridState, Segments, SegmentsHanded, fillVars,
                   DoorsBefore, Runs, Last>>

\* GenerateWallsAndDoors up to the edge loop: nothing happens without a wall
\* style; otherwise the occupancy map and the wall records are cleared, the
\* procedural doors replace FixedDoorLocations, and the forced walls go in.
WallsBegin ==
    /\ pc = "walls"
    /\ IF RoomData.WallStyleData = nullptr
       THEN /\ pc' = "ceiling"
            /\ UNCHANGED <<FixedDoorLocations, OccupancyGrid, PlacedBaseWalls, Instances,
                           Loaded, EdgeIndex>>
       ELSE LET d == IF bEnableProceduralDoors
                     THEN PlaceProceduralDoors(<<>>, NewStream(GenerationSeed), RoomData,
                                               RequiredDoorEdges, MinProceduralDoors,
                                               MaxProceduralDoors)
                     ELSE [doors |-> FixedDoorLocations, stream |-> NewStream(GenerationSeed)]
                w == PlaceForcedWalls([occ |-> EmptyMap, walls |-> <<>>, inst |-> Instances,
                                       loaded |-> Loaded],
                                      ForcedWalls, RoomData.GridSize, RoomData.WallStyleData)
            IN  /\ FixedDoorLocations' = d.doors
                /\ OccupancyGrid' = w.occ
                /\ PlacedBaseWalls' = w.walls
                /\ Instances' = w.inst
                /\ Loaded' = w.loaded
                /\ EdgeIndex' = 1
                /\ pc' = "edge"
    /\ UNCHANGED <<designerVars, InternalGridState, Segments, SegmentsHanded, fillVars,
                   DoorsBefore, Runs, Last>>

\* One edge of the loop: occupancy of the edge, pass 1 (doors), and the
\* segments pass 2 will hand to FillWallSegment.
EdgeBegin ==
    /\ pc = "edge"
    /\ LET Edge == Edges[EdgeIndex]
           EdgeCells == GetCellsForEdge(Edge, RoomData.GridSize)
           e == DoorsFrom([occupied |-> InitialOccupied(OccupancyGrid, EdgeCells),
                           occ |-> OccupancyGrid, inst |-> Instances, loaded |-> Loaded],
                          FixedDoorLocations, 1, Edge, RoomData.GridSize)
       IN  /\ OccupancyGrid' = e.occ
           /\ Instances' = e.inst
           /\ Loaded' = e.loaded
           /\ Segments' = FindSegments(e.occupied)
    /\ pc' = "segments"
    /\ UNCHANGED <<designerVars, FixedDoorLocations, InternalGridState, PlacedBaseWalls,
                   EdgeIndex, SegmentsHanded, fillVars, DoorsBefore, Runs, Last>>

\* AMasterRoom::FillWallSegment up to its loop, for the next segment.
FillWallSegment ==
    /\ pc = "segments"
    /\ Segments # <<>>
    /\ LET Edge == Edges[EdgeIndex]
           SegmentStart == Head(Segments)[1]
           SegmentLength == Head(Segments)[2]
           EdgeCells == GetCellsForEdge(Edge, RoomData.GridSize)
       IN  /\ SegmentsHanded' = Append(SegmentsHanded,
                                       [Edge |-> Edge, Start |-> SegmentStart,
                                        Length |-> SegmentLength])
           /\ IF \/ Len(RoomData.WallStyleData.AvailableWallModules) = 0
                 \/ Len(EdgeCells) = 0 \/ SegmentStart < 0 \/ SegmentStart >= Len(EdgeCells)
              THEN UNCHANGED <<pc, fillVars>>
              ELSE /\ FillEdge' = Edge
                   /\ RemainingCells' = SegmentLength
                   /\ CurrentCell' = SegmentStart
                   /\ pc' = "fill"
    /\ Segments' = Tail(Segments)
    /\ UNCHANGED <<designerVars, FixedDoorLocations, InternalGridState, OccupancyGrid,
                   PlacedBaseWalls, Instances, Loaded, EdgeIndex, DoorsBefore, Runs, Last>>

\* The loop of FillWallSegment goes round once more: a module fits and its
\* base mesh loads.
FillContinues ==
    /\ RemainingCells > 0
    /\ LET modules == RoomData.WallStyleData.AvailableWallModules
           best == BestModule(modules, RemainingCells)
       IN  best # 0 /\ LoadSynchronous(modules[best].BaseMesh) # Null

\* One iteration of the loop of FillWallSegment that places a module.
FillIter ==
    /\ pc = "fill"
    /\ FillContinues
    /\ Len(PlacedBaseWalls) < MaxWallRecords
    /\ LET WallData == RoomData.WallStyleData
           modules == WallData.AvailableWallModules
           BestMod == modules[BestModule(modules, RemainingCells)]
           BaseMesh == LoadSynchronous(BestMod.BaseMesh)
           Position == WallPosition(FillEdge, CurrentCell, BestMod.Y_AxisFootprint,
                                    RoomData.GridSize, WallData)
       IN  /\ Instances' = Append(Instances,
                              Inst("wall", BaseMesh, Position, GetWallRotationForEdge(FillEdge),
                                   <<CurrentCell, 0>>, <<BestMod.Y_AxisFootprint, 1>>, FillEdge))
           /\ PlacedBaseWalls' = Append(PlacedBaseWalls,
                                    WallRecord(FillEdge, CurrentCell, BestMod.Y_AxisFootprint,
                                               Position, BaseMesh, BestMod, FALSE))
           /\ Loaded' = AfterLoad(BestMod.BaseMesh, Loaded)
           /\ RemainingCells' = RemainingCells - BestMod.Y_AxisFootprint
           /\ CurrentCell' = CurrentCell + BestMod.Y_AxisFootprint
    /\ UNCHANGED <<designerVars, FixedDoorLocations, InternalGridState, OccupancyGrid, pc,
                   EdgeIndex, Segments, SegmentsHanded, FillEdge, DoorsBefore, Runs, Last>>

\* The loop of FillWallSegment ends: nothing remains, no module fits, or the
\* base mesh of the best module does not load.
FillExit ==
    /\ pc = "fill"
    /\ ~FillContinues
    /\ pc' = "segments"
    /\ UNCHANGED <<designerVars, FixedDoorLocations, InternalGridState, OccupancyGrid,
                   PlacedBaseWalls, Instances, Loaded, EdgeIndex, Segments, SegmentsHanded,
                   fillVars, DoorsBefore, Runs, Last>>

\* The edge has no segment left: on to the next edge, or to the layers.
EdgeEnd ==
    /\ pc = "segments"
    /\ Segments = <<>>
    /\ IF EdgeIndex < Len(Edges)
       THEN EdgeIndex' = EdgeIndex + 1 /\ pc' = "edge"
       ELSE EdgeIndex' = EdgeIndex /\ pc' = "layers"
    /\ UNCHANGED <<designerVars, FixedDoorLocations, InternalGridState, OccupancyGrid,
                   PlacedBaseWalls, Instances, Loaded, Segments, SegmentsHanded, fillVars,
                   DoorsBefore, Runs, Last>>

\* The tail of GenerateWallsAndDoors: SpawnMiddleWalls, SpawnTopWalls, SpawnCorners.
Layers ==
    /\ pc = "layers"
    /\ LET l1 == SpawnMiddleWalls([inst |-> Instances, loaded |-> Loaded], PlacedBaseWalls)
           l2 == SpawnTopWalls(l1, PlacedBaseWalls)
           l3 == SpawnCorners(l2, RoomData)
       IN  Instances' = l3.inst /\ Loaded' = l3.loaded
    /\ pc' = "ceiling"
    /\ UNCHANGED <<designerVars, FixedDoorLocations, InternalGridState, OccupancyGrid,
                   PlacedBaseWalls, EdgeIndex, Segments, SegmentsHanded, fillVars,
                   DoorsBefore, Runs, Last>>

\* The call of GenerateCeiling, and the return of RegenerateRoom.
Ceiling ==
    /\ pc = "ceiling"
    /\ LET l == GenerateCeiling([inst |-> Instances, loaded |-> Loaded], RoomData,
                                GenerationSeed)
       IN  Instances' = l.inst /\ Loaded' = l.loaded
    /\ pc' = "idle"
    /\ UNCHANGED <<designerVars, FixedDoorLocations, InternalGridState, OccupancyGrid,
                   PlacedBaseWalls, EdgeIndex, Segments, SegmentsHanded, fillVars,
                   DoorsBefore, Runs, Last>>

\* Between two runs the designer edits the actor's properties: RoomData is
\* unassigned, the room's wall style pack is, or the interior inputs (floor
\* tile set, forced placements, forced-empty cells) are replaced.
EditKinds == {"UnassignRoomData", "UnassignWallStyle", "ChangeInterior"}

\* The interior inputs a designer changes to: a pool of single tiles with a
\* forced placement and a forced-empty cell.
InteriorAlternatives ==
    { [floor |-> [FloorTilePool |-> <<[MeshAsset |-> "F1", GridFootprint |-> <<1, 1>>,
                                       PlacementWeight |-> 1, AllowedRotations |-> <<0>>]>>,
                  DefaultFillerTile |-> "Fill"],
       placements |-> <<[Key |-> <<0, 0>>,
                         Value |-> [MeshAsset |-> "F2", GridFootprint |-> <<1, 1>>,
                                    PlacementWeight |-> 1, AllowedRotations |-> <<0>>]]>>,
       cells |-> <<<<0, 1>>>>] }

Edit ==
    /\ pc = "idle"
    /\ Runs >= 1
    /\ Runs < MaxRuns
    /\ RoomData # nullptr
    /\ \E kind \in EditKinds :
          /\ kind = "UnassignWallStyle" => RoomData.WallStyleData # nullptr
          /\ kind = "ChangeInterior" => kind \notin Last.pending
          /\ IF kind = "ChangeInterior"
             THEN \E alt \in InteriorAlternatives :
                     /\ <<RoomData.FloorStyleData, ForcedInteriorPlacements,
                           ForcedEmptyFloorCells>> # <<alt.floor, alt.placements, alt.cells>>
                     /\ RoomData' = [RoomData EXCEPT !.FloorStyleData = alt.floor]
                     /\ ForcedInteriorPlacements' = alt.placements
                     /\ ForcedEmptyFloorCells' = alt.cells
             ELSE /\ RoomData' = IF kind = "UnassignRoomData" THEN nullptr
                                 ELSE [RoomData EXCEPT !.WallStyleData = nullptr]
                  /\ UNCHANGED <<ForcedInteriorPlacements, ForcedEmptyFloorCells>>
          /\ Last' = [Last EXCEPT !.edited = TRUE, !.pending = @ \cup {kind}]
    /\ UNCHANGED <<GenerationSeed, ShapePreset, ForcedEmptyRegions,
                   ForcedWalls, bEnableProceduralDoors,
                   MinProceduralDoors, MaxProceduralDoors, RequiredDoorEdges,
                   FixedDoorLocations, InternalGridState, OccupancyGrid, PlacedBaseWalls,
                   Instances, Loaded, pc, EdgeIndex, Segments, SegmentsHanded, fillVars,
                   DoorsBefore, Runs>>

Next ==
    \/ RegenerateRoom
    \/ GenerateFloor
    \/ WallsBegin
    \/ EdgeBegin
    \/ FillWallSegment
    \/ FillIter
    \/ FillExit
    \/ EdgeEnd
    \/ Layers
    \/ Ceiling
    \/ Edit

-----------------------------------------------------------------------------
(* Data assets and designer inputs.                                        *)

AllMeshes == {"F1", "F2", "Fill", "Base", "BaseS", "Mid1", "Mid1S", "Mid2", "Top",
              "Frame", "Corner", "CeilS", "CeilL"}

\* FMeshPlacementInfo
MeshPlacementInfo(mesh, fp, weight, rots) ==
    [MeshAsset |-> mesh, GridFootprint |-> fp, PlacementWeight |-> weight,
     AllowedRotations |-> rots]

\* UFloorData
FloorData(pool, filler) == [FloorTilePool |-> pool, DefaultFillerTile |-> filler]

\* FWallModule
WallModule(fp, base, mid1, mid2, top) ==
    [Y_AxisFootprint |-> fp, BaseMesh |-> base, Middle1Mesh |-> mid1,
     Middle2Mesh |-> mid2, TopMesh |-> top, PlacementWeight |-> 1]

\* UWallData
WallData(modules, corner) ==
    [AvailableWallModules |-> modules, DefaultCornerMesh |-> corner,
     NorthWallOffsetX |-> 0, SouthWallOffsetX |-> 0,
     EastWallOffsetY |-> 0, WestWallOffsetY |-> 0,
     SouthWestCornerOffset |-> <<1, 0, 0>>, SouthEastCornerOffset |-> <<2, 0, 0>>,
     NorthEastCornerOffset |-> <<3, 0, 0>>, NorthWestCornerOffset |-> <<4, 0, 0>>]

\* UDoorData
DoorData(fp, frame, weight, pool) ==
    [FrameFootprintY |-> fp, FrameSideMesh |-> frame, FrameRotationOffset |-> 0,
     PlacementWeight |-> weight, DoorStylePool |-> pool]

\* FFixedDoorLocation
FixedDoor(Edge, StartCell, data) ==
    [WallEdge |-> Edge, StartCell |-> StartCell, DoorData |-> data,
     FramePositionOffset |-> <<0, 0, 0>>]

\* FForcedWallPlacement
ForcedWall(Edge, StartCell, module) ==
    [Edge |-> Edge, StartCell |-> StartCell, WallModule |-> module]

\* FCeilingTile
CeilingTile(mesh, weight) == [Mesh |-> mesh, PlacementWeight |-> weight]

\* UCeilingData, with the default height and rotation.
CeilingData(large, small) ==
    [LargeTilePool |-> large, SmallTilePool |-> small, CeilingHeight |-> 500,
     CeilingRotation |-> 180]

\* URoomData
Room(GridSize, floor, wall, door, ceiling) ==
    [GridSize |-> GridSize, FloorStyleData |-> floor, WallStyleData |-> wall,
     DoorStyleData |-> door, CeilingStyleData |-> ceiling]

Entry(key, info) == [Key |-> key, Value |-> info]
Region(a, b) == [StartCell |-> a, EndCell |-> b]

\* Floor pools: single tiles, rotating 2x1 tiles, a big tile, an asset that
\* cannot be loaded, a pool of zero weights, and the empty pool.
FloorPools ==
    { <<>>,
      <<MeshPlacementInfo("F1", <<1, 1>>, 1, <<0>>)>>,
      <<MeshPlacementInfo("F2", <<2, 1>>, 3, <<0, 90>>),
        MeshPlacementInfo("F1", <<1, 1>>, 1, <<0>>)>>,
      <<MeshPlacementInfo("F2", <<2, 2>>, 1, <<0, 90, 180, 270>>)>>,
      <<MeshPlacementInfo(BadMesh, <<1, 1>>, 1, <<0>>),
        MeshPlacementInfo("F2", <<1, 2>>, 2, <<270, 0>>)>>,
      <<MeshPlacementInfo("F1", <<3, 1>>, 0, <<0>>),
        MeshPlacementInfo("F2", <<1, 2>>, 0, <<0, 90>>)>> }

FloorStyles ==
    {nullptr} \cup {FloorData(pool, filler) : pool \in FloorPools, filler \in {"Fill", NoMesh}}

\* ForcedInteriorPlacements: none, one that fits, one that leaves the grid,
\* two that collide, and a mix of a missing mesh, a negative anchor, an
\* entry that fits in one of its rotations only and one that always fits.
PlacementLists ==
    { <<>>,
      <<Entry(<<0, 0>>, MeshPlacementInfo("F2", <<2, 1>>, 1, <<0, 90>>))>>,
      <<Entry(<<2, 1>>, MeshPlacementInfo("F2", <<2, 2>>, 1, <<0>>))>>,
      <<Entry(<<0, 0>>, MeshPlacementInfo("F1", <<2, 2>>, 1, <<0>>)),
        Entry(<<1, 1>>, MeshPlacementInfo("F2", <<2, 1>>, 1, <<0, 180>>))>>,
      <<Entry(<<1, 0>>, MeshPlacementInfo(BadMesh, <<1, 1>>, 1, <<0>>)),
        Entry(<<-1, 0>>, MeshPlacementInfo("F1", <<2, 1>>, 1, <<0>>)),
        Entry(<<2, 0>>, MeshPlacementInfo("F1", <<1, 2>>, 1, <<180, 90>>)),
        Entry(<<0, 1>>, MeshPlacementInfo("F1", <<1, 1>>, 1, <<0>>))>> }

\* ForcedEmptyRegions and ForcedEmptyFloorCells: none, an inverted region,
\* repeated and out-of-grid cells, a region clamped to the grid.
EmptyChoices ==
    { [regions |-> <<>>, cells |-> <<>>],
      [regions |-> <<Region(<<1, 1>>, <<1, 0>>)>>, cells |-> <<>>],
      [regions |-> <<>>, cells |-> <<<<0, 0>>, <<5, 5>>, <<0, 0>>>>],
      [regions |-> <<Region(<<2, 0>>, <<9, 9>>)>>, cells |-> <<<<0, 1>>>>] }

ShapePresets ==
    {nullptr, [EmptyRegions |-> <<Region(<<0, 0>>, <<0, 0>>)>>, EmptyCells |-> <<<<2, 1>>>>]}

\* Wall module catalogs: two sizes, one size that leaves remainders, a
\* module whose base mesh cannot be loaded, a module of footprint 0, the
\* empty catalog, two modules of equal footprint, a module whose Middle1
\* mesh cannot be loaded, and a largest module whose base mesh cannot be
\* loaded.
Catalogs ==
    { <<WallModule(1, "Base", NoMesh, NoMesh, "Top"),
        WallModule(2, "BaseS", "Mid1", "Mid2", "Top")>>,
      <<WallModule(3, "Base", "Mid1S", NoMesh, NoMesh)>>,
      <<WallModule(2, "BaseS", NoMesh, "Mid2", "Top"),
        WallModule(1, BadMesh, NoMesh, NoMesh, NoMesh)>>,
      <<WallModule(0, "Base", NoMesh, NoMesh, NoMesh),
        WallModule(2, "Base", NoMesh, NoMesh, NoMesh)>>,
      <<>>,
      <<WallModule(2, "Base", "Mid1", NoMesh, "Top"),
        WallModule(2, "BaseS", "Mid1S", "Mid2", "Top")>>,
      <<WallModule(1, "Base", BadMesh, "Mid2", "Top"),
        WallModule(2, "BaseS", "Mid1", "Mid2", "Top")>>,
      <<WallModule(2, BadMesh, NoMesh, NoMesh, NoMesh),
        WallModule(1, "Base", NoMesh, NoMesh, "Top")>> }

StandardCatalog ==
    <<WallModule(1, "Base", NoMesh, NoMesh, "Top"),
      WallModule(2, "BaseS", "Mid1", "Mid2", "Top")>>

StandardDoor == DoorData(2, "Frame", 1, <<>>)

\* The room's door style: a pool of a 1-cell and a 3-cell door.
DoorStyle ==
    DoorData(2, "Frame", 1,
             <<DoorData(1, "Frame", 1, <<>>), DoorData(3, NoMesh, 2, <<>>)>>)

\* A door style whose pool is dominated by a 3-cell door.
HeavyDoorStyle ==
    DoorData(2, "Frame", 1,
             <<DoorData(3, NoMesh, 10, <<>>), DoorData(1, "Frame", 1, <<>>)>>)

\* FixedDoorLocations as the designer leaves them: none, one 2-cell door at
\* South 3, two doors that overlap, doors that reach past the end of their
\* edge, a door before the start of its edge and a door without data.
DoorLists ==
    { <<>>,
      <<FixedDoor("South", 3, StandardDoor)>>,
      <<FixedDoor("South", 3, StandardDoor), FixedDoor("South", 4, StandardDoor)>>,
      <<FixedDoor("South", 9, StandardDoor),
        FixedDoor("North", 0, DoorData(0, NoMesh, 1, <<>>))>>,
      <<FixedDoor("South", -1, StandardDoor), FixedDoor("East", 0, DoorData(1, "Frame", 1, <<>>)),
        FixedDoor("South", 5, nullptr)>> }

\* ForcedWalls: none, one on the cells of the door at South 3, two that
\* collide and one that leaves its edge.
ForcedWallLists ==
    { <<>>,
      <<ForcedWall("South", 3, WallModule(2, "Base", NoMesh, NoMesh, "Top"))>>,
      <<ForcedWall("North", 0, WallModule(2, "BaseS", "Mid1", NoMesh, NoMesh)),
        ForcedWall("North", 1, WallModule(2, "Base", NoMesh, NoMesh, NoMesh)),
        ForcedWall("South", 9, WallModule(2, "Base", NoMesh, NoMesh, NoMesh))>> }

StandardCeiling ==
    CeilingData(<<CeilingTile("CeilL", 1)>>, <<CeilingTile("CeilS", 1), CeilingTile(BadMesh, 1)>>)

StandardFloor ==
    FloorData(<<MeshPlacementInfo("F2", <<2, 1>>, 3, <<0, 90>>),
                MeshPlacementInfo("F1", <<1, 1>>, 1, <<0>>)>>, "Fill")

\* The state of the actor after construction, for the given properties.
InitWith(room, seed, preset, empties, placements, doors, walls, procedural, required, loaded) ==
    /\ RoomData = room
    /\ GenerationSeed = seed
    /\ ShapePreset = preset
    /\ ForcedEmptyRegions = empties.regions
    /\ ForcedEmptyFloorCells = empties.cells
    /\ ForcedInteriorPlacements = placements
    /\ FixedDoorLocations = doors
    /\ ForcedWalls = walls
    /\ bEnableProceduralDoors = procedural
    /\ MinProceduralDoors = 1
    /\ MaxProceduralDoors = 2
    /\ RequiredDoorEdges = required
    /\ InternalGridState = <<>>
    /\ OccupancyGrid = EmptyMap
    /\ PlacedBaseWalls = <<>>
    /\ Instances = <<>>
    /\ Loaded = loaded
    /\ pc = "idle"
    /\ EdgeIndex = 1
    /\ Segments = <<>>
    /\ SegmentsHanded = <<>>
    /\ FillEdge = "North"
    /\ RemainingCells = 0
    /\ CurrentCell = 0
    /\ DoorsBefore = <<>>
    /\ Runs = 0
    /\ Last = [inst |-> <<>>, walls |-> <<>>, same |-> FALSE, edited |-> FALSE,
               edits |-> {}, pending |-> {}]

NoEmpties == [regions |-> <<>>, cells |-> <<>>]

\* Interior inputs on a RoomX x RoomY room with a fixed wall set-up.
InitInterior ==
    \E floor \in FloorStyles, placements \in PlacementLists, empties \in EmptyChoices,
       preset \in ShapePresets, seed \in {0, MaxSeed - 1} :
        InitWith(Room(<<RoomX, RoomY>>, floor, WallData(StandardCatalog, "Corner"), nullptr,
                      StandardCeiling),
                 seed, preset, empties, placements,
                 <<FixedDoor("East", 1, StandardDoor)>>, <<>>, FALSE, <<>>, AllMeshes)

\* Wall and door inputs on a 1 x 10 and on a RoomY x RoomX room with a fixed
\* interior.
InitWalls ==
    \/ \E grid \in {<<1, 10>>, <<RoomY, RoomX>>}, catalog \in Catalogs, doors \in DoorLists,
          walls \in ForcedWallLists :
          InitWith(Room(grid, StandardFloor, WallData(catalog, "Corner"), DoorStyle,
                        nullptr),
                   0, nullptr, NoEmpties, <<>>, doors, walls, FALSE, <<>>, AllMeshes)
    \/ \E grid \in {<<1, 10>>, <<RoomY, RoomX>>}, doors \in DoorLists, walls \in ForcedWallLists,
          required \in {<<>>, <<"South", "South", "East">>}, seed \in 0..MaxSeed,
          style \in {DoorStyle, HeavyDoorStyle} :
          /\ Len(doors) <= 2
          /\ required = <<>> => style = DoorStyle
          /\ InitWith(Room(grid, StandardFloor, WallData(StandardCatalog, "Corner"),
                           style, StandardCeiling),
                      seed, nullptr, NoEmpties, <<>>, doors, walls, TRUE, required,
                      AllMeshes)

\* A floor tile set and a door style whose pools start with an entry of
\* weight 0.
ZeroFirstFloor ==
    FloorData(<<MeshPlacementInfo("F2", <<2, 1>>, 0, <<0>>),
                MeshPlacementInfo("F1", <<1, 1>>, 2, <<0>>)>>, "Fill")

ZeroFirstDoorStyle ==
    DoorData(2, "Frame", 1,
             <<DoorData(3, NoMesh, 0, <<>>), DoorData(1, "Frame", 1, <<>>)>>)

\* Whole rooms on a RoomY x RoomY grid: RoomData or one of its style packs missing,
\* assets resident or not yet loaded, procedural doors on or off.
Rooms ==
    {nullptr} \cup
    {Room(<<RoomY, RoomY>>, floor, wall, door, StandardCeiling) :
        floor \in {nullptr, StandardFloor, ZeroFirstFloor,
                   FloorData(<<MeshPlacementInfo("F1", <<1, 1>>, 1, <<0>>)>>, "Fill")},
        wall \in {nullptr, WallData(StandardCatalog, "Corner")},
        door \in {DoorStyle, ZeroFirstDoorStyle}}

Init ==
    \E room \in Rooms, seed \in 0..MaxSeed, procedural \in BOOLEAN, loaded \in {{}, AllMeshes},
       doors \in {<<>>, <<FixedDoor("South", 0, StandardDoor)>>} :
        InitWith(room, seed, nullptr, NoEmpties,
                 <<Entry(<<0, 0>>, MeshPlacementInfo("F1", <<1, 1>>, 1, <<0>>))>>,
                 doors, <<ForcedWall("North", 0, WallModule(1, "Base", NoMesh, NoMesh, "Top"))>>,
                 procedural, <<>>, loaded)

\* Ceiling tile sets: the standard one (a small tile whose mesh cannot be
\* loaded), two pools of loadable tiles, pools whose weights are all 0, an
\* empty large pool, an empty small pool, and a small pool that starts with
\* a tile of weight 0.
CeilingStyles ==
    { StandardCeiling,
      CeilingData(<<CeilingTile("CeilL", 1), CeilingTile("CeilL2", 3)>>,
                  <<CeilingTile("CeilS", 3), CeilingTile("CeilS2", 1)>>),
      CeilingData(<<CeilingTile("CeilL", 0)>>,
                  <<CeilingTile("CeilS", 0), CeilingTile("CeilS2", 0)>>),
      CeilingData(<<>>, <<CeilingTile("CeilS", 1)>>),
      CeilingData(<<CeilingTile("CeilL", 1)>>, <<>>),
      CeilingData(<<CeilingTile("CeilL", 2)>>,
                  <<CeilingTile("CeilS2", 0), CeilingTile("CeilS", 2)>>) }

\* Ceiling inputs on rooms that hold no, one and several large tiles, with
\* no floor tile set and a fixed wall set-up.
InitCeiling ==
    \E grid \in {<<CeilX, CeilY>>, <<CeilY, CeilingTileCells>>,
                 <<CeilingTileCells, CeilingTileCells>>, <<RoomX, RoomY>>},
       ceiling \in CeilingStyles, seed \in 0..MaxSeed :
        InitWith(Room(grid, nullptr, WallData(StandardCatalog, "Corner"), DoorStyle,
                      ceiling),
                 seed, nullptr, NoEmpties, <<>>, <<>>, <<>>, FALSE, <<>>,
                 AllMeshes \cup {"CeilS2", "CeilL2"})

Spec == Init /\ [][Next]_vars
SpecCeiling == InitCeiling /\ [][Next]_vars
SpecInterior == InitInterior /\ [][Next]_vars
SpecWalls == InitWalls /\ [][Next]_vars

-----------------------------------------------------------------------------
(* Properties of the interior packing.                                     *)

GridCells(GridSize) == {<<x, y>> : x \in 0..(GridSize[1] - 1), y \in 0..(GridSize[2] - 1)}

\* The cells an instance was placed for.
InstCells(inst) == FootprintCells(inst.cell[1], inst.cell[2], inst.fp)

InstancesOf(kinds) == {i \in 1..Len(Instances) : Instances[i].kind \in kinds}

\* GenerateFloorAndInterior has just returned.
InteriorDone == pc = "walls"

NoCellEmpty ==
    /\ DOMAIN InternalGridState = 0..(RoomData.GridSize[1] * RoomData.GridSize[2] - 1)
    /\ \A c \in GridCells(RoomData.GridSize) :
          InternalGridState[CellIndex(c[1], c[2], RoomData.GridSize[1])] # ECT_Empty

C2_NoOverlapInBounds ==
    RoomData # nullptr =>
        LET interior == InstancesOf({"forced", "floor", "filler"}) IN
        /\ \A i \in interior : InstCells(Instances[i]) \subseteq GridCells(RoomData.GridSize)
        /\ \A i, j \in interior :
              i # j => InstCells(Instances[i]) \cap InstCells(Instances[j]) = {}

\* A run with a forced placement, a scan placement of more than one cell and
\* filler tiles, after a forced placement was refused.
C2_Witness ==
    /\ InteriorDone
    /\ Len(ForcedInteriorPlacements) > Cardinality(InstancesOf({"forced"}))
    /\ InstancesOf({"forced"}) # {}
    /\ \E i \in InstancesOf({"floor"}) : Cardinality(InstCells(Instances[i])) > 1
    /\ InstancesOf({"filler"}) # {}

\* The cells ForcedEmptyRegions (normalised and clamped) and
\* ForcedEmptyFloorCells list.
ListedEmptyCells ==
    {c \in GridCells(RoomData.GridSize) :
        \/ \E k \in 1..Len(ForcedEmptyRegions) :
              c \in RegionCells(ForcedEmptyRegions[k], RoomData.GridSize)
        \/ \E k \in 1..Len(ForcedEmptyFloorCells) : c = ForcedEmptyFloorCells[k]}

NoneCovers(kinds) ==
    \A i \in InstancesOf(kinds) : InstCells(Instances[i]) \cap ListedEmptyCells = {}

\* The interior properties are those the latest run read: the designer has
\* not changed them since.
InteriorInputsCurrent == "ChangeInterior" \notin Last.pending

\* C7 as stated: no interior placement (forced, weighted scan or filler)
\* of a run covers a cell that run found listed in ForcedEmptyRegions or
\* ForcedEmptyFloorCells.
C7_NoPlacementOnForcedEmpty ==
    (RoomData # nullptr /\ InteriorInputsCurrent) =>
        NoneCovers({"forced", "floor", "filler"})

\* C7, amended: no weighted-scan placement and no filler tile of a run
\* covers a cell that run found listed in ForcedEmptyRegions or
\* ForcedEmptyFloorCells (forced placements are placed before the cells are
\* reserved, and may cover them).
C7_NoScanOrFillerOnForcedEmpty ==
    (RoomData # nullptr /\ InteriorInputsCurrent) => NoneCovers({"floor", "filler"})

\* A run that reserved listed cells and placed scan placements and filler
\* tiles around them.
C7_Witness ==
    /\ InteriorDone
    /\ \E c \in ListedEmptyCells :
          InternalGridState[CellIndex(c[1], c[2], RoomData.GridSize[1])] = ECT_Wall
    /\ \E i \in InstancesOf({"floor"}) : Cardinality(InstCells(Instances[i])) > 1
    /\ InstancesOf({"filler"}) # {}

-----------------------------------------------------------------------------
(* Properties of the wall and door layout.                                 *)

Span(StartCell, Length) == StartCell..(StartCell + Length - 1)

EdgeLength(Edge) == Len(GetCellsForEdge(Edge, RoomData.GridSize))

EdgeRange(Edge) == 0..(EdgeLength(Edge) - 1)

\* The doors of FixedDoorLocations that carry door data.
DoorsWithData == {k \in 1..Len(FixedDoorLocations) : FixedDoorLocations[k].DoorData # nullptr}

DoorSpan(k) ==
    Span(FixedDoorLocations[k].StartCell, DoorFootprint(FixedDoorLocations[k].DoorData))

DoorCellsOn(Edge) ==
    UNION {DoorSpan(k) : k \in {d \in DoorsWithData : FixedDoorLocations[d].WallEdge = Edge}}

RecordsOn(Edge, forced) ==
    {k \in 1..Len(PlacedBaseWalls) :
        PlacedBaseWalls[k].Edge = Edge /\ PlacedBaseWalls[k].bForced \in forced}

RecordSpan(k) == Span(PlacedBaseWalls[k].StartCell, PlacedBaseWalls[k].SegmentLength)

RecordCellsOn(Edge, forced) == UNION {RecordSpan(k) : k \in RecordsOn(Edge, forced)}

\* The maximal runs <<start, length>> of cells of an edge that no door and
\* no forced wall occupies.
MaximalRunsOn(Edge) ==
    LET free == EdgeRange(Edge) \ (DoorCellsOn(Edge) \cup RecordCellsOn(Edge, {TRUE})) IN
    {r \in EdgeRange(Edge) \X (1..EdgeLength(Edge)) :
        /\ Span(r[1], r[2]) \subseteq free
        /\ (r[1] - 1) \notin free
        /\ (r[1] + r[2]) \notin free}

HandedIndexOn(Edge) == {k \in 1..Len(SegmentsHanded) : SegmentsHanded[k].Edge = Edge}

HandedOn(Edge) ==
    {<<SegmentsHanded[k].Start, SegmentsHanded[k].Length>> : k \in HandedIndexOn(Edge)}

\* Pass 2 of the k-th edge is over in the current run.
EdgeComplete(k) ==
    \/ pc \in {"edge", "segments", "fill"} /\ EdgeIndex > k
    \/ pc = "layers"

\* The scenario of the spec: one 2-cell door at South 3 on a 10-cell edge.
SouthDoorScenario ==
    /\ RoomData # nullptr
    /\ EdgeLength("South") = 10
    /\ FixedDoorLocations = <<FixedDoor("South", 3, StandardDoor)>>
    /\ ForcedWalls = <<>>

\* C6: the segments handed to FillWallSegment are exactly the maximal runs
\* of edge cells free of doors and forced walls, no packed record covers a
\* door cell, and in the scenario the segments of South are [0,3) and [5,10)
\* and no wall covers [3,5).
C6_SegmentsAreMaximalRuns ==
    /\ \A k \in 1..Len(Edges) :
          EdgeComplete(k) =>
             /\ HandedOn(Edges[k]) = MaximalRunsOn(Edges[k])
             /\ Cardinality(HandedIndexOn(Edges[k])) = Cardinality(MaximalRunsOn(Edges[k]))
    /\ \A k \in 1..Len(PlacedBaseWalls) :
          ~PlacedBaseWalls[k].bForced =>
             RecordSpan(k) \cap DoorCellsOn(PlacedBaseWalls[k].Edge) = {}
    /\ (SouthDoorScenario /\ EdgeComplete(2)) =>
          /\ HandedOn("South") = {<<0, 3>>, <<5, 5>>}
          /\ RecordCellsOn("South", BOOLEAN) \cap {3, 4} = {}

\* The scenario with the walls of South packed on both sides of the door.
C6_Witness ==
    /\ pc = "layers"
    /\ SouthDoorScenario
    /\ RecordCellsOn("South", {FALSE}) = EdgeRange("South") \ {3, 4}

\* C4 as stated: on every edge the wall record spans and the door spans are
\* pairwise disjoint, and what they leave uncovered is, in each segment, a
\* tail shorter than the footprint of every module of the catalog.
C4_EdgePartition ==
    pc = "layers" =>
        \A e \in 1..Len(Edges) :
            LET Edge == Edges[e]
                recs == RecordsOn(Edge, BOOLEAN)
                unfilled == EdgeRange(Edge) \ (DoorCellsOn(Edge) \cup RecordCellsOn(Edge, BOOLEAN))
                modules == RoomData.WallStyleData.AvailableWallModules
            IN  /\ \A i, j \in recs : i # j => RecordSpan(i) \cap RecordSpan(j) = {}
                /\ \A i \in recs :
                      /\ RecordSpan(i) \subseteq EdgeRange(Edge)
                      /\ RecordSpan(i) \cap DoorCellsOn(Edge) = {}
                /\ \A h \in HandedOn(Edge) :
                      LET rest == unfilled \cap Span(h[1], h[2]) IN
                      /\ \A c \in rest : c + 1 < h[1] + h[2] => (c + 1) \in rest
                      /\ \A m \in 1..Len(modules) :
                            Cardinality(rest) < modules[m].Y_AxisFootprint

\* Door resolution of the current run is over.
DoorsResolved == pc \in {"edge", "segments", "fill", "layers"}

DoorsDisjoint ==
    \A i, j \in DoorsWithData :
        (i # j /\ FixedDoorLocations[i].WallEdge = FixedDoorLocations[j].WallEdge)
        => DoorSpan(i) \cap DoorSpan(j) = {}

DoorsInsideEdge ==
    \A i \in DoorsWithData : DoorSpan(i) \subseteq EdgeRange(FixedDoorLocations[i].WallEdge)

C8_PackingLoopProgress == [][FillIter => RemainingCells' < RemainingCells]_vars

-----------------------------------------------------------------------------
(* Properties of whole runs.                                               *)

\* RegenerateRoom has returned, and the properties are as it found them.
RunFinished == pc = "idle" /\ Runs >= 1 /\ ~Last.edited

\* C3 as stated: a second RegenerateRoom with the same inputs and seed emits
\* the same sequence of placements and the same wall record list as the
\* first, whatever the first run left behind.
C3_SecondRunSameOutput ==
    (RunFinished /\ Last.same) =>
        (Instances = Last.inst /\ PlacedBaseWalls = Last.walls)

\* RoomData, the floor style pack or the wall style pack is missing.
ConfigurationMissing ==
    \/ RoomData = nullptr
    \/ RoomData.FloorStyleData = nullptr
    \/ RoomData.WallStyleData = nullptr

\* C9 as stated: with RoomData null, or the floor or the wall style pack
\* unresolved, the run emits no instance at all and its result is empty.
C9_MissingConfigurationEmitsNothing ==
    (RunFinished /\ ConfigurationMissing) => Instances = <<>>

\* C10 as stated: the wall records and the boundary occupancy are reset at
\* the start of every run, so after a run they hold only what that run
\* produced: every record has the base wall instance that run emitted for
\* it, and a run without a wall style leaves both empty.
C10_OnlyLatestRunData ==
    RunFinished =>
        /\ \A k \in 1..Len(PlacedBaseWalls) :
              \E i \in InstancesOf({"wall"}) :
                 /\ Instances[i].pos = PlacedBaseWalls[k].BaseTransform.pos
                 /\ Instances[i].mesh = PlacedBaseWalls[k].BaseMesh
                 /\ Instances[i].edge = PlacedBaseWalls[k].Edge
        /\ (RoomData # nullptr /\ RoomData.WallStyleData = nullptr)
              => (PlacedBaseWalls = <<>> /\ OccupancyGrid = EmptyMap)

-----------------------------------------------------------------------------
(* Properties of the stacked wall layers and the corners.                  *)

\* SpawnMiddleWalls, SpawnTopWalls and SpawnCorners of the current run have
\* returned.
WallsLayered == pc = "ceiling" /\ RoomData.WallStyleData # nullptr

\* The instances of one kind emitted for the k-th wall record.
LayerOf(k, kind) ==
    {i \in InstancesOf({kind}) :
        /\ Instances[i].edge = PlacedBaseWalls[k].Edge
        /\ Instances[i].cell = <<PlacedBaseWalls[k].StartCell, 0>>}

InstTransform(i) == [pos |-> Instances[i].pos, yaw |-> Instances[i].yaw]

\* Top of the k-th record sits on the attachment point of the layer that
\* was actually placed topmost for that record.
TopOnTopmost(k, t) ==
    LET seg == PlacedBaseWalls[k] IN
    IF LayerOf(k, "middle2") # {}
    THEN \E i \in LayerOf(k, "middle2") :
            InstTransform(t) = Compose(MiddleAttach(Instances[i].mesh), InstTransform(i))
    ELSE IF LayerOf(k, "middle1") # {}
    THEN \E i \in LayerOf(k, "middle1") :
            InstTransform(t) = Compose(MiddleAttach(Instances[i].mesh), InstTransform(i))
    ELSE InstTransform(t) = Compose(BaseAttach(seg.BaseMesh), seg.BaseTransform)

\* C11: for every wall record whose Top mesh resolves, Top is placed at the
\* attachment offset of the topmost layer actually placed for the record
\* (Middle2, else Middle1, else Base) composed with that layer's world
\* transform; a module with only Base and Top gets no Middle instance.
C11_TopStacksOnTopmostLayer ==
    WallsLayered =>
        \A k \in 1..Len(PlacedBaseWalls) :
            LET seg == PlacedBaseWalls[k] IN
            /\ LoadSynchronous(seg.WallModule.TopMesh) # Null =>
                  /\ LayerOf(k, "top") # {}
                  /\ \A t \in LayerOf(k, "top") :
                        /\ Instances[t].mesh = LoadSynchronous(seg.WallModule.TopMesh)
                        /\ TopOnTopmost(k, t)
            /\ (seg.WallModule.Middle1Mesh = NoMesh /\ seg.WallModule.Middle2Mesh = NoMesh) =>
                  (LayerOf(k, "middle1") = {} /\ LayerOf(k, "middle2") = {})

\* One record carries Base, Middle1, Middle2 and Top on a socketed Base
\* mesh of a turned edge, and another only Base and Top.
C11_Witness ==
    /\ WallsLayered
    /\ \E k \in 1..Len(PlacedBaseWalls) :
          /\ HasTopSocket(PlacedBaseWalls[k].BaseMesh)
          /\ PlacedBaseWalls[k].BaseTransform.yaw # 0
          /\ LayerOf(k, "middle2") # {}
          /\ LayerOf(k, "top") # {}
    /\ \E k \in 1..Len(PlacedBaseWalls) :
          /\ PlacedBaseWalls[k].WallModule.Middle1Mesh = NoMesh
          /\ PlacedBaseWalls[k].WallModule.Middle2Mesh = NoMesh
          /\ LayerOf(k, "top") # {}

\* C12: a Middle2 instance exists for a record only if a Middle1 instance
\* exists for it, Middle2 sits on the attachment offset of that Middle1
\* composed with the Middle1 world transform, and a module whose Middle1 is
\* absent or does not load gets no Middle2.
C12_Middle2OnlyOnMiddle1 ==
    WallsLayered =>
        \A k \in 1..Len(PlacedBaseWalls) :
            /\ \A j \in LayerOf(k, "middle2") :
                  \E i \in LayerOf(k, "middle1") :
                     InstTransform(j) =
                        Compose(MiddleAttach(Instances[i].mesh), InstTransform(i))
            /\ LoadSynchronous(PlacedBaseWalls[k].WallModule.Middle1Mesh) = Null =>
                  LayerOf(k, "middle2") = {}

\* One record has a Middle2 on its Middle1, and another has a Middle2 mesh
\* that loads and a Middle1 mesh that does not.
C12_Witness ==
    /\ WallsLayered
    /\ \E k \in 1..Len(PlacedBaseWalls) :
          LayerOf(k, "middle2") # {} /\ LayerOf(k, "middle1") # {}
    /\ \E k \in 1..Len(PlacedBaseWalls) :
          /\ PlacedBaseWalls[k].WallModule.Middle1Mesh = BadMesh
          /\ LoadSynchronous(PlacedBaseWalls[k].WallModule.Middle2Mesh) # Null

-----------------------------------------------------------------------------
(* Properties of procedural door placement.                                *)

\* Door resolution of the current run is over, in procedural-door mode.
ProceduralResolved == pc = "layers" /\ bEnableProceduralDoors

\* C13 as stated: in procedural-door mode the doors the designer put in
\* FixedDoorLocations before the first run are still in the list once the
\* doors of that run are resolved.
C13_DesignerDoorsKept ==
    (ProceduralResolved /\ Runs = 1) =>
        \A k \in 1..Len(DoorsBefore) :
            \E j \in 1..Len(FixedDoorLocations) : FixedDoorLocations[j] = DoorsBefore[k]

\* A door the draw can return fits the whole edge: the door data itself
\* when the pool is empty, else a pool door of positive weight.
FittingDoorExists(Edge) ==
    LET DoorStyle0 == RoomData.DoorStyleData
        pool == DoorStyle0.DoorStylePool
    IN  IF Len(pool) = 0 THEN DoorFootprint(DoorStyle0) <= EdgeLength(Edge)
        ELSE \E i \in 1..Len(pool) :
                /\ pool[i] # nullptr
                /\ pool[i].PlacementWeight > 0
                /\ DoorFootprint(pool[i]) <= EdgeLength(Edge)

\* C14 as stated: in required-edges mode every listed edge that a door of
\* the pool fits carries at least one door after door resolution, and doors
\* are put on listed edges only, whatever the Min/Max counts.
C14_RequiredEdgesGetDoors ==
    (ProceduralResolved /\ Len(RequiredDoorEdges) > 0 /\ RoomData.DoorStyleData # nullptr) =>
        /\ \A k \in 1..Len(RequiredDoorEdges) :
              FittingDoorExists(RequiredDoorEdges[k]) =>
                 \E d \in DoorsWithData :
                    FixedDoorLocations[d].WallEdge = RequiredDoorEdges[k]
        /\ \A d \in 1..Len(FixedDoorLocations) :
              \E k \in 1..Len(RequiredDoorEdges) :
                 FixedDoorLocations[d].WallEdge = RequiredDoorEdges[k]

-----------------------------------------------------------------------------
(* Properties of the corners.                                              *)

\* The corner positions the UWallData documentation gives: SouthWest at
\* (0, 0), NorthWest at (0, GridSize.Y), NorthEast at (GridSize.X,
\* GridSize.Y), SouthEast at (GridSize.X, 0), each moved by its own offset.
DocumentedCorners ==
    LET WallStyle0 == RoomData.WallStyleData
        W == RoomData.GridSize[1] * CELL_SIZE
        H == RoomData.GridSize[2] * CELL_SIZE
    IN  { AddVec(<<0, 0, 0>>, WallStyle0.SouthWestCornerOffset),
          AddVec(<<0, H, 0>>, WallStyle0.NorthWestCornerOffset),
          AddVec(<<W, H, 0>>, WallStyle0.NorthEastCornerOffset),
          AddVec(<<W, 0, 0>>, WallStyle0.SouthEastCornerOffset) }

\* C15 as stated: SpawnCorners emits exactly four corner instances, with
\* identity rotation, at the four grid corners times the cell size, each
\* moved by the offset the UWallData documentation names for that corner.
C15_CornerOffsetsAsDocumented ==
    (WallsLayered /\ LoadSynchronous(RoomData.WallStyleData.DefaultCornerMesh) # Null) =>
        /\ Cardinality(InstancesOf({"corner"})) = 4
        /\ \A i \in InstancesOf({"corner"}) : Instances[i].yaw = 0
        /\ {Instances[i].pos : i \in InstancesOf({"corner"})} = DocumentedCorners

-----------------------------------------------------------------------------
(* Properties of the packing loop.                                         *)

\* The catalog entries that the greedy rule allows for a remaining length:
\* they fit, none that fits is larger, and none of the same footprint comes
\* earlier in the catalog.
GreedyChoices(modules, RemainingLen) ==
    {i \in 1..Len(modules) :
        /\ modules[i].Y_AxisFootprint <= RemainingLen
        /\ \A j \in 1..Len(modules) :
              modules[j].Y_AxisFootprint <= RemainingLen =>
                 /\ modules[j].Y_AxisFootprint <= modules[i].Y_AxisFootprint
                 /\ (j < i => modules[j].Y_AxisFootprint < modules[i].Y_AxisFootprint)}

\* C16: every iteration of FillWallSegment that places a module places the
\* largest catalog module that fits the remaining length, the earliest one
\* among equals, records it at the current cell with its footprint as
\* length, and advances the current cell by that footprint; with no module
\* that fits there is no iteration.
C16_GreedyLargestFirst ==
    [][FillIter =>
          LET modules == RoomData.WallStyleData.AvailableWallModules
              rec == PlacedBaseWalls'[Len(PlacedBaseWalls')]
          IN  /\ Len(PlacedBaseWalls') = Len(PlacedBaseWalls) + 1
              /\ \E i \in GreedyChoices(modules, RemainingCells) :
                    /\ rec.WallModule = modules[i]
                    /\ rec.BaseMesh = LoadSynchronous(modules[i].BaseMesh)
                    /\ rec.Edge = FillEdge
                    /\ rec.StartCell = CurrentCell
                    /\ rec.SegmentLength = modules[i].Y_AxisFootprint
                    /\ CurrentCell' = CurrentCell + modules[i].Y_AxisFootprint
                    /\ RemainingCells' = RemainingCells - modules[i].Y_AxisFootprint]_vars

\* A segment of odd length packed with a 2-cell module followed by a 1-cell
\* module.
C16_Witness ==
    /\ pc = "fill"
    /\ Len(PlacedBaseWalls) >= 2
    /\ LET n == Len(PlacedBaseWalls) IN
       /\ ~PlacedBaseWalls[n].bForced /\ ~PlacedBaseWalls[n - 1].bForced
       /\ PlacedBaseWalls[n - 1].SegmentLength = 2
       /\ PlacedBaseWalls[n].SegmentLength = 1
       /\ PlacedBaseWalls[n].Edge = PlacedBaseWalls[n - 1].Edge
       /\ PlacedBaseWalls[n].StartCell = PlacedBaseWalls[n - 1].StartCell + 2
       /\ CurrentCell = PlacedBaseWalls[n].StartCell + 1

-----------------------------------------------------------------------------
(* Properties of forced walls.                                             *)

\* C17 as stated: a forced wall is placed only on cells that no door
\* occupies, so once the walls of a run are placed no forced wall record
\* covers a cell of a door of its edge.
C17_NoForcedWallOnDoor ==
    pc = "layers" =>
        \A k \in 1..Len(PlacedBaseWalls) :
            PlacedBaseWalls[k].bForced =>
                RecordSpan(k) \cap DoorCellsOn(PlacedBaseWalls[k].Edge) = {}

\* C18 as stated: a base mesh that fails to resolve costs one placement
\* only, so the packing loop of a segment does not end while a module whose
\* base mesh resolves still fits the remaining cells.
C18_PackingSurvivesMeshFailure ==
    [][FillExit =>
          \A i \in 1..Len(RoomData.WallStyleData.AvailableWallModules) :
              LET Module == RoomData.WallStyleData.AvailableWallModules[i] IN
              (RemainingCells > 0 /\ Module.Y_AxisFootprint <= RemainingCells) =>
                  LoadSynchronous(Module.BaseMesh) = Null]_vars

-----------------------------------------------------------------------------
(* Properties of forced interior placements.                               *)

\* ExecuteForcedPlacements of the current run has returned.
ForcedPlacementsDone == InteriorDone /\ RoomData.FloorStyleData # nullptr

\* The forced instances placed for the entry keyed by a cell.
ForcedAt(key) == {i \in InstancesOf({"forced"}) : Instances[i].cell = key}

\* The cells of an entry in one of its rotations, and whether they lie in
\* the grid.
EntryCells(e, yaw) == FootprintCells(e.Key[1], e.Key[2], RotatedFootprint(e.Value, yaw))

EntryYaws(e) == {e.Value.AllowedRotations[r] : r \in 1..Len(e.Value.AllowedRotations)}

EntryInBounds(e, yaw) == EntryCells(e, yaw) \subseteq GridCells(RoomData.GridSize)

\* An entry that is placed whatever the draws and the other entries: its
\* mesh loads, every rotation stays in the grid, and no cell of it is a
\* cell another entry could take.
EntryAlwaysFits(k) ==
    LET e == ForcedInteriorPlacements[k] IN
    /\ LoadSynchronous(e.Value.MeshAsset) # Null
    /\ \A yaw \in EntryYaws(e) : EntryInBounds(e, yaw)
    /\ \A j \in 1..Len(ForcedInteriorPlacements) :
          LET o == ForcedInteriorPlacements[j] IN
          (j # k /\ LoadSynchronous(o.Value.MeshAsset) # Null) =>
             \A yaw \in EntryYaws(e), oyaw \in EntryYaws(o) :
                EntryInBounds(o, oyaw) => EntryCells(e, yaw) \cap EntryCells(o, oyaw) = {}

\* The cells of InternalGridState that are FloorMesh.
FloorMeshCells ==
    {c \in GridCells(RoomData.GridSize) :
        InternalGridState[CellIndex(c[1], c[2], RoomData.GridSize[1])] = ECT_FloorMesh}

\* C19: an entry of ForcedInteriorPlacements whose mesh is missing or whose
\* footprint leaves the grid emits nothing, no two forced placements share
\* a cell, a placed entry marks exactly its rotated footprint FloorMesh and
\* no other forced cell is marked, and an entry that can be placed is
\* placed whatever failed before it.
C19_ForcedPlacementFailureIsLocal ==
    ForcedPlacementsDone =>
        /\ \A k \in 1..Len(ForcedInteriorPlacements) :
              LET e == ForcedInteriorPlacements[k] IN
              /\ Cardinality(ForcedAt(e.Key)) <= 1
              /\ (\/ LoadSynchronous(e.Value.MeshAsset) = Null
                  \/ \A yaw \in EntryYaws(e) : ~EntryInBounds(e, yaw))
                 => ForcedAt(e.Key) = {}
              /\ \A i \in ForcedAt(e.Key) :
                    /\ Instances[i].mesh = LoadSynchronous(e.Value.MeshAsset)
                    /\ Instances[i].yaw \in EntryYaws(e)
                    /\ InstCells(Instances[i]) = EntryCells(e, Instances[i].yaw)
                    /\ EntryInBounds(e, Instances[i].yaw)
                    /\ InstCells(Instances[i]) \subseteq FloorMeshCells
              /\ EntryAlwaysFits(k) => ForcedAt(e.Key) # {}
        /\ \A i \in InstancesOf({"forced"}) :
              \E k \in 1..Len(ForcedInteriorPlacements) :
                 Instances[i].cell = ForcedInteriorPlacements[k].Key
        /\ \A i, j \in InstancesOf({"forced"}) :
              i # j => InstCells(Instances[i]) \cap InstCells(Instances[j]) = {}
        /\ FloorMeshCells =
              UNION {InstCells(Instances[i]) : i \in InstancesOf({"forced", "floor", "filler"})}

\* An entry with a missing mesh and an entry that leaves the grid were
\* skipped, and the entries after them were placed.
C19_Witness ==
    /\ ForcedPlacementsDone
    /\ Len(ForcedInteriorPlacements) = 4
    /\ ForcedAt(ForcedInteriorPlacements[1].Key) = {}
    /\ ForcedAt(ForcedInteriorPlacements[2].Key) = {}
    /\ ForcedAt(ForcedInteriorPlacements[3].Key) # {}
    /\ ForcedAt(ForcedInteriorPlacements[4].Key) # {}

-----------------------------------------------------------------------------
(* Properties of the door list across runs.                                *)

\* The number of doors of a list on an edge.
DoorsOn(list, Edge) == Cardinality({d \in 1..Len(list) : list[d].WallEdge = Edge})

\* The number of edge entries PlaceProceduralDoors processes for an edge, at
\* most: the occurrences of the edge in RequiredDoorEdges, else one.
EdgeEntries(Edge) ==
    IF Len(RequiredDoorEdges) > 0
    THEN Cardinality({k \in 1..Len(RequiredDoorEdges) : RequiredDoorEdges[k] = Edge})
    ELSE 1

\* The number of edge entries processed in all, at most.
ProcessedEntries ==
    IF Len(RequiredDoorEdges) > 0 THEN Len(RequiredDoorEdges)
    ELSE Min2(MaxProceduralDoors, Len(Edges))

-----------------------------------------------------------------------------
(* Properties of the ceiling.                                              *)

\* GenerateCeiling of the current run has run on a ceiling tile set.
CeilingDone ==
    /\ pc = "idle"
    /\ Runs >= 1
    /\ RoomData # nullptr
    /\ RoomData.CeilingStyleData # nullptr

TilesResolve(pool) == \A i \in 1..Len(pool) : LoadSynchronous(pool[i].Mesh) # Null

\* Both pools are non-empty with a positive total weight and every tile
\* mesh resolves.
CeilingPoolsUsable ==
    LET Large == RoomData.CeilingStyleData.LargeTilePool
        Small == RoomData.CeilingStyleData.SmallTilePool
    IN  /\ Len(Large) > 0 /\ SumWeights(Large, Len(Large)) > 0 /\ TilesResolve(Large)
        /\ Len(Small) > 0 /\ SumWeights(Small, Len(Small)) > 0 /\ TilesResolve(Small)

\* The cells under the ceiling instances of the given kinds.
CeilingCells(kinds) == UNION {InstCells(Instances[i]) : i \in InstancesOf(kinds)}

\* The ceiling instances over a cell.
TilesOver(c) ==
    {i \in InstancesOf({"ceiling", "ceilingLarge"}) : c \in InstCells(Instances[i])}

\* C21: with usable pools every interior cell is under exactly one ceiling
\* tile, a large tile sits on an anchor (4i, 4j) with its whole block inside
\* the grid, and the small tiles cover exactly the cells under no large
\* tile.
C21_CeilingCoversEveryCellOnce ==
    (CeilingDone /\ CeilingPoolsUsable) =>
        /\ \A c \in GridCells(RoomData.GridSize) : Cardinality(TilesOver(c)) = 1
        /\ \A i \in InstancesOf({"ceilingLarge"}) :
              /\ Instances[i].cell[1] % CeilingTileCells = 0
              /\ Instances[i].cell[2] % CeilingTileCells = 0
              /\ Instances[i].fp = <<CeilingTileCells, CeilingTileCells>>
              /\ InstCells(Instances[i]) \subseteq GridCells(RoomData.GridSize)
        /\ \A i \in InstancesOf({"ceiling"}) : Instances[i].fp = <<1, 1>>
        /\ CeilingCells({"ceiling"}) =
              GridCells(RoomData.GridSize) \ CeilingCells({"ceilingLarge"})

\* A room with two large tiles and a strip of small tiles beside them.
C21_Witness ==
    /\ CeilingDone
    /\ CeilingPoolsUsable
    /\ Cardinality(InstancesOf({"ceilingLarge"})) >= 2
    /\ Cardinality(InstancesOf({"ceiling"})) >= 1

\* C22 as stated: a non-empty small pool whose tiles resolve puts a tile on
\* every cell under no large tile and a non-empty large pool whose tiles
\* resolve puts a tile on every whole block, whatever the weights sum to.
C22_NonEmptyPoolAlwaysPlaces ==
    CeilingDone =>
        LET Large == RoomData.CeilingStyleData.LargeTilePool
            Small == RoomData.CeilingStyleData.SmallTilePool
            GridSize == RoomData.GridSize
        IN  /\ (Len(Large) > 0 /\ TilesResolve(Large)) =>
                  \A X \in 0..(GridSize[1] - 1), Y \in 0..(GridSize[2] - 1) :
                     (/\ X % CeilingTileCells = 0 /\ Y % CeilingTileCells = 0
                      /\ X + CeilingTileCells <= GridSize[1]
                      /\ Y + CeilingTileCells <= GridSize[2])
                     => \E i \in InstancesOf({"ceilingLarge"}) : Instances[i].cell = <<X, Y>>
            /\ (Len(Small) > 0 /\ TilesResolve(Small)) =>
                  GridCells(GridSize) \ CeilingCells({"ceilingLarge"})
                     \subseteq CeilingCells({"ceiling"})

-----------------------------------------------------------------------------
(* Properties of the weighted selector.                                    *)

\* The floor pool of the room, once the interior phase has used it.
FloorPoolUsed ==
    /\ InteriorDone
    /\ RoomData.FloorStyleData # nullptr

\* The values of the stream when SelectWeightedMesh is called.
Streams == 0..(RandMod - 1)

\* The entries whose cumulative weight is >= r, for r = FRand() * total.
Reaching(pool, s) ==
    {i \in 1..Len(pool) :
        FRandNum(s) * SumWeights(pool, Len(pool)) <= SumWeights(pool, i) * RandMod}

\* The number of stream values for which entry i of the pool is returned.
DrawsSelecting(pool, i) == Cardinality({s \in Streams : SelectWeightedMesh(pool, s).idx = i})

\* C23: SelectWeightedMesh returns nothing for an empty pool, the entry at
\* a uniformly drawn index when the weights sum to <= 0, and else the first
\* entry whose cumulative weight is >= r, the last if there is none; over
\* all draws a pool of weights 3 and 1 returns its entries in ratio 3:1, up
\* to the one draw that falls on the boundary.
C23_SelectWeightedMeshContract ==
    FloorPoolUsed =>
        LET pool == RoomData.FloorStyleData.FloorTilePool
            total == SumWeights(pool, Len(pool))
        IN  /\ \A s \in Streams :
                  LET idx == SelectWeightedMesh(pool, s).idx IN
                  /\ Len(pool) = 0 => idx = 0
                  /\ (Len(pool) > 0 /\ total <= 0) =>
                        idx = 1 + (FRandNum(s) * Len(pool)) \div RandMod
                  /\ (Len(pool) > 0 /\ total > 0) =>
                        /\ Reaching(pool, s) # {} =>
                              /\ idx \in Reaching(pool, s)
                              /\ \A j \in Reaching(pool, s) : idx <= j
                        /\ Reaching(pool, s) = {} => idx = Len(pool)
            /\ (Len(pool) > 0 /\ total <= 0) =>
                  \A i, j \in 1..Len(pool) :
                     DrawsSelecting(pool, i) - DrawsSelecting(pool, j) \in {-1, 0, 1}
            /\ (Len(pool) = 2 /\ pool[1].PlacementWeight = 3 /\ pool[2].PlacementWeight = 1) =>
                  /\ DrawsSelecting(pool, 1) - 3 * DrawsSelecting(pool, 2) \in -4..4
                  /\ DrawsSelecting(pool, 1) + DrawsSelecting(pool, 2) = RandMod

\* The scan has placed both entries of a pool of weights 3 and 1.
C23_Witness ==
    /\ FloorPoolUsed
    /\ LET pool == RoomData.FloorStyleData.FloorTilePool IN
       /\ Len(pool) = 2
       /\ pool[1].PlacementWeight = 3
       /\ pool[2].PlacementWeight = 1
       /\ \E i, j \in InstancesOf({"floor"}) :
             /\ Instances[i].mesh = pool[1].MeshAsset
             /\ Instances[j].mesh = pool[2].MeshAsset

-----------------------------------------------------------------------------
(* Properties of the door frames.                                          *)

\* The coordinate of a position along an edge: Y on North and South, X on
\* East and West.
AlongEdge(Edge, pos) == IF Edge \in {"North", "South"} THEN pos[2] ELSE pos[1]

\* C24 as stated: every door frame instance lies, along its edge, at the
\* midpoint of its span, (StartCell + f/2) x CELL_SIZE, plus the offset of
\* its door, for even and odd footprints alike.
C24_DoorFrameAtSpanMidpoint ==
    \A i \in InstancesOf({"door"}) :
        \E d \in 1..Len(FixedDoorLocations) :
           LET DoorLoc == FixedDoorLocations[d] IN
           /\ DoorLoc.DoorData # nullptr
           /\ DoorLoc.WallEdge = Instances[i].edge
           /\ DoorLoc.StartCell = Instances[i].cell[1]
           /\ DoorFootprint(DoorLoc.DoorData) = Instances[i].fp[1]
           /\ 2 * AlongEdge(Instances[i].edge, Instances[i].pos) =
                 (2 * DoorLoc.StartCell + Instances[i].fp[1]) * CELL_SIZE
                 + 2 * AlongEdge(Instances[i].edge, DoorLoc.FramePositionOffset)

-----------------------------------------------------------------------------
(* Properties of the edge mapping.                                         *)

\* The mapping of the edges as documented: the fixed coordinate of an edge,
\* the axis its cells run along (1 = X, 2 = Y) and its yaw.
EdgeFixedCoordinate(Edge, GridSize) ==
    CASE Edge = "North" -> GridSize[1]
      [] Edge = "South" -> -1
      [] Edge = "East"  -> GridSize[2]
      [] Edge = "West"  -> -1

EdgeRunsAlong(Edge) == IF Edge \in {"North", "South"} THEN 2 ELSE 1

EdgeYaw(Edge) ==
    CASE Edge = "North" -> 180
      [] Edge = "South" -> 0
      [] Edge = "East"  -> 270
      [] Edge = "West"  -> 90

\* C25: for the room's W x H grid each edge has as many cells as the grid
\* is long along it, in increasing order, at X = W (North), X = -1 (South),
\* Y = H (East) or Y = -1 (West), with yaw 180, 0, 270 and 90; no edge cell
\* is an interior cell, so no key of OccupancyGrid is one, and every wall
\* record carries the yaw of its edge.
C25_EdgeMapping ==
    RoomData # nullptr =>
        LET GridSize == RoomData.GridSize IN
        /\ \A e \in 1..Len(Edges) :
              LET Edge == Edges[e]
                  cells == GetCellsForEdge(Edge, GridSize)
                  along == EdgeRunsAlong(Edge)
              IN  /\ Len(cells) = GridSize[along]
                  /\ \A i \in 1..Len(cells) :
                        /\ cells[i][along] = i - 1
                        /\ cells[i][3 - along] = EdgeFixedCoordinate(Edge, GridSize)
                        /\ cells[i] \notin GridCells(GridSize)
                  /\ GetWallRotationForEdge(Edge) = EdgeYaw(Edge)
        /\ \A k \in DOMAIN OccupancyGrid :
              /\ k \notin GridCells(GridSize)
              /\ \E e \in 1..Len(Edges) :
                    /\ k[3 - EdgeRunsAlong(Edges[e])] = EdgeFixedCoordinate(Edges[e], GridSize)
                    /\ k[EdgeRunsAlong(Edges[e])] \in 0..(GridSize[EdgeRunsAlong(Edges[e])] - 1)
        /\ \A k \in 1..Len(PlacedBaseWalls) :
              PlacedBaseWalls[k].BaseTransform.yaw = EdgeYaw(PlacedBaseWalls[k].Edge)

\* All four edges of a room are walled, with a doorway and a forced wall
\* among the keys of OccupancyGrid.
C25_Witness ==
    /\ pc = "layers"
    /\ \E k \in DOMAIN OccupancyGrid : OccupancyGrid[k] = ECT_Doorway
    /\ \E k \in DOMAIN OccupancyGrid : OccupancyGrid[k] = ECT_Wall
    /\ \A e \in 1..Len(Edges) : \E k \in 1..Len(PlacedBaseWalls) : PlacedBaseWalls[k].Edge = Edges[e]

-----------------------------------------------------------------------------
(* Properties of the order of the phases.                                  *)

\* The instances of the given kinds come before those of the later kinds.
Before(earlier, later) ==
    \A i \in InstancesOf(earlier), j \in InstancesOf(later) : i < j

InteriorKinds == {"forced", "floor", "filler"}
WallKinds == {"wall", "door"}
LayerKinds == {"middle1", "middle2", "top"}
CeilingKinds == {"ceilingLarge", "ceiling"}

-----------------------------------------------------------------------------
(* Independence of the wall phase from the interior.                       *)

\* The instances of a list that no interior pass emitted.
NotInterior(x) == x.kind \notin InteriorKinds

OutsideInterior(list) == SelectSeq(list, NotInterior)

\* A run has ended whose inputs differ from those of the run before in the
\* interior inputs only.
InteriorChangedRunDone ==
    /\ pc = "idle"
    /\ Runs >= 2
    /\ ~Last.edited
    /\ Last.edits = {"ChangeInterior"}

\* A step of GenerateWallsAndDoors.
WallPhaseStep ==
    \/ WallsBegin \/ EdgeBegin \/ FillWallSegment \/ FillIter \/ FillExit \/ EdgeEnd \/ Layers

\* C27: a run that differs from the run before in the floor pool, the
\* forced interior placements and the forced-empty cells only ends with the
\* same door list, the same wall records and the same layer, corner and
\* ceiling placements as that run, and no step of the wall phase changes
\* InternalGridState.
C27_WallPhaseIndependentOfInterior ==
    [][/\ (Ceiling /\ Runs >= 2 /\ Last.edits = {"ChangeInterior"}) =>
             /\ FixedDoorLocations' = DoorsBefore
             /\ PlacedBaseWalls' = Last.walls
             /\ OutsideInterior(Instances') = OutsideInterior(Last.inst)
       /\ WallPhaseStep => InternalGridState' = InternalGridState]_vars

\* Two runs with procedural doors and different interiors: the second has
\* other interior instances than the first, and doors, walls and ceiling
\* tiles were placed.
C27_Witness ==
    /\ InteriorChangedRunDone
    /\ bEnableProceduralDoors
    /\ Len(FixedDoorLocations) >= 1
    /\ Len(PlacedBaseWalls) >= 1
    /\ InstancesOf(CeilingKinds) # {}
    /\ SelectSeq(Instances, LAMBDA x : ~NotInterior(x))
          # SelectSeq(Last.inst, LAMBDA x : ~NotInterior(x))

-----------------------------------------------------------------------------
(* Properties of rotated footprints.                                       *)

\* The rectangle a footprint (fw, fh) takes at a yaw: fh x fw at 90 and
\* 270, fw x fh at 0 and 180.
RectangleAt(fp, yaw) == IF yaw \in {90, 270} THEN <<fp[2], fp[1]>> ELSE fp

\* An instance is a placement of the mesh description info at one of its
\* rotations: its cells are the rectangle of that rotation anchored at its
\* cell, inside the grid and marked FloorMesh, and it stands at the centre
\* of that rectangle.
PlacedAsRotated(inst, info) ==
    LET rect == RectangleAt(info.GridFootprint, inst.yaw)
        cells == {<<inst.cell[1] + dx, inst.cell[2] + dy>> :
                     dx \in 0..(rect[1] - 1), dy \in 0..(rect[2] - 1)}
    IN  /\ inst.mesh = info.MeshAsset
        /\ \E r \in 1..Len(info.AllowedRotations) : info.AllowedRotations[r] = inst.yaw
        /\ InstCells(inst) = cells
        /\ cells \subseteq GridCells(RoomData.GridSize)
        /\ cells \subseteq FloorMeshCells
        /\ 2 * inst.pos[1] = (2 * inst.cell[1] + rect[1]) * CELL_SIZE
        /\ 2 * inst.pos[2] = (2 * inst.cell[2] + rect[2]) * CELL_SIZE

\* C28: every forced placement and every scan placement of the run is a
\* placement of its mesh description on the rectangle of the rolled yaw,
\* and no two of them share a cell.
C28_RotatedFootprintUsed ==
    ForcedPlacementsDone =>
        /\ \A i \in InstancesOf({"forced"}) :
              \E k \in 1..Len(ForcedInteriorPlacements) :
                 /\ ForcedInteriorPlacements[k].Key = Instances[i].cell
                 /\ PlacedAsRotated(Instances[i], ForcedInteriorPlacements[k].Value)
        /\ \A i \in InstancesOf({"floor"}) :
              \E k \in 1..Len(RoomData.FloorStyleData.FloorTilePool) :
                 PlacedAsRotated(Instances[i], RoomData.FloorStyleData.FloorTilePool[k])
        /\ \A i, j \in InstancesOf({"forced", "floor"}) :
              i # j => InstCells(Instances[i]) \cap InstCells(Instances[j]) = {}

\* A forced placement and a scan placement of a (2,1) mesh, one of them
\* rolled to 90 and on a 1 x 2 rectangle, the other unrotated on 2 x 1.
C28_Witness ==
    /\ ForcedPlacementsDone
    /\ \E i, j \in InstancesOf({"forced", "floor"}) :
          /\ Instances[i].kind # Instances[j].kind
          /\ Instances[i].yaw = 90 /\ InstCells(Instances[i]) =
                {Instances[i].cell, <<Instances[i].cell[1], Instances[i].cell[2] + 1>>}
          /\ Instances[j].yaw = 0 /\ InstCells(Instances[j]) =
                {Instances[j].cell, <<Instances[j].cell[1] + 1, Instances[j].cell[2]>>}

-----------------------------------------------------------------------------
(* Entries of weight 0.                                                    *)

\* C29 as stated: in a run, when the weights of the room's floor pool sum
\* to more than 0, SelectWeightedMesh returns no entry of weight 0, whatever
\* the draw, and neither does SelectRandomDoorFromPool on the pool of the
\* room's door style.
C29_ZeroWeightNeverSelected ==
    (Runs >= 1 /\ RoomData # nullptr) =>
        /\ RoomData.FloorStyleData # nullptr =>
              LET pool == RoomData.FloorStyleData.FloorTilePool IN
              (Len(pool) > 0 /\ SumWeights(pool, Len(pool)) > 0) =>
                 \A s \in Streams :
                    pool[SelectWeightedMesh(pool, s).idx].PlacementWeight # 0
        /\ RoomData.DoorStyleData # nullptr =>
              LET pool == RoomData.DoorStyleData.DoorStylePool IN
              (Len(pool) > 0 /\ SumDoorWeights(pool, Len(pool)) > 0) =>
                 \A s \in Streams :
                    SelectRandomDoorFromPool(RoomData.DoorStyleData, s).door.PlacementWeight # 0

-----------------------------------------------------------------------------
(* Properties of doors that leave their edge.                              *)

\* The doors of FixedDoorLocations whose span is not contained in the cells
\* of their edge.
DoorsLeavingEdge ==
    {d \in DoorsWithData : ~(DoorSpan(d) \subseteq EdgeRange(FixedDoorLocations[d].WallEdge))}

\* The door frame instances emitted for door d.
FramesOf(d) ==
    {i \in InstancesOf({"door"}) :
        /\ Instances[i].edge = FixedDoorLocations[d].WallEdge
        /\ Instances[i].cell[1] = FixedDoorLocations[d].StartCell
        /\ Instances[i].fp[1] = DoorFootprint(FixedDoorLocations[d].DoorData)}

\* The cells of an edge that a door lying inside the edge covers.
CellsOfDoorsInside(Edge) ==
    UNION {DoorSpan(k) : k \in {d \in DoorsWithData \ DoorsLeavingEdge :
                                    FixedDoorLocations[d].WallEdge = Edge}}

\* C30 as stated: once the walls and doors of a run are generated, a door
\* whose span is not contained in its edge has no door frame instance, and
\* no cell of its span is marked Doorway on its account.
C30_DoorLeavingEdgeIsSkipped ==
    (pc = "layers" /\ RoomData # nullptr) =>
        \A d \in DoorsLeavingEdge :
            LET Edge == FixedDoorLocations[d].WallEdge
                EdgeCells == GetCellsForEdge(Edge, RoomData.GridSize)
            IN  /\ FramesOf(d) = {}
                /\ \A c \in (DoorSpan(d) \cap EdgeRange(Edge)) \ CellsOfDoorsInside(Edge) :
                       ~(/\ EdgeCells[c + 1] \in DOMAIN OccupancyGrid
                         /\ OccupancyGrid[EdgeCells[c + 1]] = ECT_Doorway)

====
